---------------------------- MODULE Spec2Model ----------------------------
(* Model of src/active_time.ino: the flash-backed heart-rate store          *)
(* (placeInMemory / retrieveFromMemory / switch*Files / caughtUp), the      *)
(* checkin protocol, the main loop that drives them, the step tracker       *)
(* (checkForSteps) with its store, and the QRS detector (detect) with the   *)
(* timer interrupt (updateHeartRate).                                       *)
(*                                                                          *)
(* The specifications:                                                      *)
(*   Spec          the store driven call by call (append, take, ack commit, *)
(*                 read revert), in any order;                              *)
(*   SpecOverflow  the same, with appends up to one file beyond a full ring;*)
(*   SpecSteps     checkForSteps() called at any times, with the wearer and *)
(*                 the clock as environment;                                *)
(*   SpecScenario  checkForSteps() on a walk of four steps at given times;  *)
(*   SpecLoop      the firmware's loop() with the timer interrupt and the   *)
(*                 peer (phone) as environment;                             *)
(*   SpecLoopFair  SpecLoop with a processor that keeps executing loop();   *)
(*   SpecWalk      loop() with a wearer who walks;                          *)
(*   SpecDetect    updateHeartRate() tick after tick on a given signal;     *)
(*   SpecRace      the loop's reads of bpmQueue, access by access, with the *)
(*                 timer interrupt arriving between any two of them.        *)
(*                                                                          *)
(* Scaling.  The source has NUM_BUFFS = 11 files of FSIZE = 128000 bytes.   *)
(* The model keeps the byte arithmetic (offsets advance by DSIZE, a file    *)
(* rolls over at FSIZE) but scales the ring down: NUM_BUFFS files of        *)
(* SlotsPerFile records each.                                               *)
EXTENDS Integers, Sequences, FiniteSets, TLC

-----------------------------------------------------------------------------
(* Program constants *)

DSIZE == 8
NUM_PCKGS == 4
NUM_BUFFS_STEP == 3
DSIZE_STEP == 10
MAX_SECS_BETWEEN_STEPS == 60
ACTIVE_THRESHOLD == 15
M == 5
N == 30
win_size == 200
BPM_BUFFER_SIZE == 5
NUM_ECGS == 20

(* Program constants, scaled down: 11 files in the source, and a checkin    *)
(* after more than 10 live sends                                            *)

NUM_BUFFS == 3
timeToCheckin == 2

(* Bounds of the model: records per file, records appended (Spec), beats    *)
(* (SpecLoop), and pairs waiting in bpmQueue                                *)

SlotsPerFile == 2
MaxBeats == 13
MaxLoopBeats == 11
MaxQueue == 2

(* Bounds of the step model: records per file of the step store, steps     *)
(* taken, advances of the clock, and the modulus of the sensor's step       *)
(* counter (a 16-bit register, scaled down)                                 *)

SlotsPerFileStep == 1
MaxSteps == 5
MaxTicks == 4
ImuWrap == 5

FSIZE == DSIZE * SlotsPerFile
DATA_PER_FILE == FSIZE \div DSIZE
STORAGE_LENGTH == DATA_PER_FILE * NUM_BUFFS

FSIZE_STEP == DSIZE_STEP * SlotsPerFileStep
DATA_PER_FILE_STEP == FSIZE_STEP \div DSIZE_STEP

(* The content of an erased slot of the step store: DSIZE_STEP bytes 0xFF *)
ErasedStep == [i \in 1..DSIZE_STEP |-> 255]

(* The content of a slot of the step store that was programmed twice       *)
CorruptStep == [i \in 1..DSIZE_STEP |-> -2]

(* By how many seconds the clock advances between two things happening: a   *)
(* few seconds, the longest gap that keeps an excursion open, and a little  *)
(* less than the 65536 s that two bytes hold                                *)
TickSteps == {10, 60, 65436}

(* Values a heart-rate average can take in the model *)
BpmValues == {72}

(* The content of an erased slot (all bits set: both words read 0xFFFFFFFF, *)
(* written here as -1) and of a slot that was programmed twice without an   *)
(* erase in between (flash can only clear bits, so the second write garbles *)
(* the first).                                                              *)
Erased == <<-1, -1>>
Corrupt == <<-2, -2>>

-----------------------------------------------------------------------------
VARIABLES
  (* the heart-rate store *)
  writeFileIndex, readFileIndex, ackFileIndex,
  nextToPlace, nextToRetrieve, nextToAck,
  flashFiles, toMemBuff, fromMemBuff,
  (* return value of the last retrieveFromMemory call *)
  ret,
  (* protocol state *)
  bleConnected, timeInitiated, sentSinceCheckin, lastTimeSent, bpmQueue,
  bpmChar, batchChar, checkinChar,
  (* the transport and the peer *)
  linkUp, checkinWritten, disconnectRequested,
  (* position of loop() *)
  pc,
  (* the clock, read by now() *)
  clock,
  (* history variables *)
  appended, fifoOut, everReverted, taken, sentWindow,
  pending, evicted, lastTakes, op, lost,
  (* step detection *)
  detectingSteps, stepCount, stepStartTime, stepEndTime,
  lastActive, activeTime, active,
  (* the step counter of the sensor, read by CurieIMU.getStepCount() *)
  imuStepCount,
  (* the step store *)
  writeFileIndexStep, readFileIndexStep, nextToPlaceStep, nextToRetrieveStep,
  flashFilesStep, toMemBuffStep, fromMemBuffStep,
  (* return value of the last retrieveFromMemoryStep call *)
  retStep,
  stepChar, liveStepChar,
  (* history of the steps: the number of steps taken, the records appended  *)
  (* to the step store, the number of clock advances, and what the last     *)
  (* call of checkForSteps did                                              *)
  stepsTaken, stepRecords, ticks, stepOp,
  (* the QRS detector, detect() *)
  ecg_buff, ecg_buff_WR_idx, ecg_buff_RD_idx,
  hp_buff, hp_buff_WR_idx, hp_buff_RD_idx,
  next_eval_pt, hp_sum, lp_sum,
  threshold, triggered, trig_time, win_max, win_idx, number_iter,
  (* the BPM average of updateHeartRate() *)
  bpm, bpm_buff, bpm_buff_WR_idx, bpm_buff_RD_idx,
  found_time_micros, old_found_time_micros,
  (* the signal at the ECG pin and the time read by micros() *)
  signal, micros,
  (* history of the detector: the number of samples given to detect(), the  *)
  (* numbers of the samples on which it returned true, the numbers of the   *)
  (* samples on which it recomputed the threshold, its last result, and the *)
  (* threshold it compared with at line 1220                                *)
  samples, accepts, updates, QRS_detected, thresholdAtTest,
  (* the ECG queue: the samples on their way to the peer, the count that    *)
  (* spaces them out, the flag that lets them in, and the characteristic    *)
  ecgQueue, ecgQCount, safeToFill, ecgChar,
  (* bpmQueue access by access: the queue's count of its items, the value   *)
  (* of that count a dequeue() in progress has read, the values the loop    *)
  (* has dequeued in this pass, and the pairs the interrupt has enqueued    *)
  items, regItems, popped, produced

storeVars == <<writeFileIndex, readFileIndex, ackFileIndex,
               nextToPlace, nextToRetrieve, nextToAck,
               flashFiles, toMemBuff, fromMemBuff, ret>>
protoVars == <<bleConnected, timeInitiated, sentSinceCheckin, lastTimeSent,
               bpmQueue, bpmChar, batchChar, checkinChar>>
envVars == <<linkUp, checkinWritten, disconnectRequested, clock>>
histVars == <<appended, fifoOut, everReverted, taken, sentWindow,
              pending, evicted, lastTakes, op, lost>>
trackVars == <<detectingSteps, stepCount, stepStartTime, stepEndTime,
               lastActive, activeTime, active, imuStepCount, liveStepChar>>
stepStoreVars == <<writeFileIndexStep, readFileIndexStep, nextToPlaceStep,
                   nextToRetrieveStep, flashFilesStep, toMemBuffStep,
                   fromMemBuffStep, retStep, stepChar>>
stepHistVars == <<stepsTaken, stepRecords, ticks, stepOp>>
stepVars == <<trackVars, stepStoreVars, stepHistVars>>
detVars == <<ecg_buff, ecg_buff_WR_idx, ecg_buff_RD_idx,
             hp_buff, hp_buff_WR_idx, hp_buff_RD_idx,
             next_eval_pt, hp_sum, lp_sum,
             threshold, triggered, trig_time, win_max, win_idx, number_iter>>
bpmVars == <<bpm, bpm_buff, bpm_buff_WR_idx, bpm_buff_RD_idx,
             found_time_micros, old_found_time_micros>>
detHistVars == <<samples, accepts, updates, QRS_detected, thresholdAtTest>>
ecgVars == <<detVars, bpmVars, signal, micros, detHistVars>>
ecgQVars == <<ecgQueue, ecgQCount, safeToFill, ecgChar>>
raceVars == <<items, regItems, popped, produced>>
vars == <<storeVars, protoVars, envVars, histVars, pc, stepVars, ecgVars,
          ecgQVars, raceVars>>

-----------------------------------------------------------------------------
(* The store as a value, so that the calls of one handler compose.          *)

Store == [writeFileIndex |-> writeFileIndex, readFileIndex |-> readFileIndex,
          ackFileIndex |-> ackFileIndex, nextToPlace |-> nextToPlace,
          nextToRetrieve |-> nextToRetrieve, nextToAck |-> nextToAck,
          flashFiles |-> flashFiles, toMemBuff |-> toMemBuff,
          fromMemBuff |-> fromMemBuff, ret |-> ret]

SetStore(s) ==
  /\ writeFileIndex' = s.writeFileIndex
  /\ readFileIndex' = s.readFileIndex
  /\ ackFileIndex' = s.ackFileIndex
  /\ nextToPlace' = s.nextToPlace
  /\ nextToRetrieve' = s.nextToRetrieve
  /\ nextToAck' = s.nextToAck
  /\ flashFiles' = s.flashFiles
  /\ toMemBuff' = s.toMemBuff
  /\ fromMemBuff' = s.fromMemBuff
  /\ ret' = s.ret

(* SerialFlashFile: seek(offset) then write / read of DSIZE bytes.          *)
SlotOf(offset) == (offset \div DSIZE) + 1

flashWrite(file, offset, buf) ==
  [file EXCEPT ![SlotOf(offset)] = IF @ = Erased THEN buf ELSE Corrupt]

flashRead(file, offset) == file[SlotOf(offset)]

flashErase(file) == [i \in DOMAIN file |-> Erased]

(* switchAckFiles: evict the ack pointer to the next file *)
switchAckFiles(s) ==
  [s EXCEPT !.ackFileIndex = (s.ackFileIndex + 1) % NUM_BUFFS,
            !.nextToAck = 0]

(* Variant: the read pointer keeps its offset in the next file *)
switchReadFiles_KeepOffset(s) ==
  [s EXCEPT !.readFileIndex = (s.readFileIndex + 1) % NUM_BUFFS]

(* switchReadFiles: start reading from the next file *)
switchReadFiles(s) ==
  [s EXCEPT !.readFileIndex = (s.readFileIndex + 1) % NUM_BUFFS,
            !.nextToRetrieve = 0]

(* Variant: the erased file's ack pointer is left where it was *)
switchWriteFiles_NoAckEvict(s) ==
  LET w == (s.writeFileIndex + 1) % NUM_BUFFS
      s1 == [s EXCEPT !.writeFileIndex = w,
                      !.flashFiles[w] = flashErase(@),
                      !.nextToPlace = 0]
  IN IF s1.writeFileIndex = s1.readFileIndex THEN switchReadFiles(s1) ELSE s1

(* switchWriteFiles: erase the next file, write from its start, and evict   *)
(* the ack and read pointers from it.                                       *)
switchWriteFiles(s) ==
  LET w == (s.writeFileIndex + 1) % NUM_BUFFS
      s1 == [s EXCEPT !.writeFileIndex = w,
                      !.flashFiles[w] = flashErase(@),
                      !.nextToPlace = 0]
      s2 == IF s1.writeFileIndex = s1.ackFileIndex THEN switchAckFiles(s1) ELSE s1
      s3 == IF s2.writeFileIndex = s2.readFileIndex THEN switchReadFiles(s2) ELSE s2
  IN s3

(* Variant: the file is switched one record early *)
placeInMemory_EarlyRoll(s) ==
  LET s1 == [s EXCEPT
               !.flashFiles[s.writeFileIndex] =
                   flashWrite(@, s.nextToPlace, s.toMemBuff),
               !.nextToPlace = @ + DSIZE]
  IN IF s1.nextToPlace + DSIZE >= FSIZE THEN switchWriteFiles(s1) ELSE s1

(* placeInMemory: store toMemBuff at the write pointer *)
placeInMemory(s) ==
  LET s1 == [s EXCEPT
               !.flashFiles[s.writeFileIndex] =
                   flashWrite(@, s.nextToPlace, s.toMemBuff),
               !.nextToPlace = @ + DSIZE]
  IN IF s1.nextToPlace >= FSIZE THEN switchWriteFiles(s1) ELSE s1

(* Variant: the emptiness test compares the offsets only *)
retrieveFromMemory_OffsetsOnly(s) ==
  IF s.nextToRetrieve >= s.nextToPlace
  THEN [s EXCEPT !.ret = FALSE]
  ELSE LET s1 == [s EXCEPT
                    !.fromMemBuff = flashRead(s.flashFiles[s.readFileIndex],
                                              s.nextToRetrieve),
                    !.nextToRetrieve = @ + DSIZE,
                    !.ret = TRUE]
       IN IF s1.nextToRetrieve >= FSIZE THEN switchReadFiles(s1) ELSE s1

(* retrieveFromMemory: read the record at the read pointer into fromMemBuff *)
retrieveFromMemory(s) ==
  IF (s.readFileIndex = s.writeFileIndex) /\ (s.nextToRetrieve >= s.nextToPlace)
  THEN [s EXCEPT !.ret = FALSE]
  ELSE LET s1 == [s EXCEPT
                    !.fromMemBuff = flashRead(s.flashFiles[s.readFileIndex],
                                              s.nextToRetrieve),
                    !.nextToRetrieve = @ + DSIZE,
                    !.ret = TRUE]
       IN IF s1.nextToRetrieve >= FSIZE THEN switchReadFiles(s1) ELSE s1

(* Variant: the difference is not reduced modulo the ring length *)
caughtUp_NoWrap(s) ==
  LET logicalWriteIndex == (s.writeFileIndex * DATA_PER_FILE)
                             + (s.nextToPlace \div DSIZE)
      logicalReadIndex == (s.readFileIndex * DATA_PER_FILE)
                             + (s.nextToRetrieve \div DSIZE)
      distance == logicalWriteIndex - logicalReadIndex
  IN distance < NUM_PCKGS

(* Variant: a distance of exactly NUM_PCKGS still counts as caught up *)
caughtUp_Inclusive(s) ==
  LET logicalWriteIndex == (s.writeFileIndex * DATA_PER_FILE)
                             + (s.nextToPlace \div DSIZE)
      logicalReadIndex == (s.readFileIndex * DATA_PER_FILE)
                             + (s.nextToRetrieve \div DSIZE)
      distance == ((logicalWriteIndex - logicalReadIndex) + STORAGE_LENGTH)
                     % STORAGE_LENGTH
  IN distance <= NUM_PCKGS

(* Variant: one record short of a batch no longer counts as caught up *)
caughtUp_OneShort(s) ==
  LET logicalWriteIndex == (s.writeFileIndex * DATA_PER_FILE)
                             + (s.nextToPlace \div DSIZE)
      logicalReadIndex == (s.readFileIndex * DATA_PER_FILE)
                             + (s.nextToRetrieve \div DSIZE)
      distance == ((logicalWriteIndex - logicalReadIndex) + STORAGE_LENGTH)
                     % STORAGE_LENGTH
  IN distance < NUM_PCKGS - 1

(* caughtUp: fewer than NUM_PCKGS records between read and write *)
caughtUp(s) ==
  LET logicalWriteIndex == (s.writeFileIndex * DATA_PER_FILE)
                             + (s.nextToPlace \div DSIZE)
      logicalReadIndex == (s.readFileIndex * DATA_PER_FILE)
                             + (s.nextToRetrieve \div DSIZE)
      distance == ((logicalWriteIndex - logicalReadIndex) + STORAGE_LENGTH)
                     % STORAGE_LENGTH
  IN distance < NUM_PCKGS

(* Variant: the ack pointer is moved up to the write pointer *)
commitAck_ToWrite(s) ==
  [s EXCEPT !.ackFileIndex = s.writeFileIndex, !.nextToAck = s.nextToPlace]

(* checkin, commit branch: the ack pointer moves up to the read pointer *)
commitAck(s) ==
  [s EXCEPT !.ackFileIndex = s.readFileIndex, !.nextToAck = s.nextToRetrieve]

(* Variant: only the offset is restored, not the file index *)
revertRead_OffsetOnly(s) ==
  [s EXCEPT !.nextToRetrieve = s.nextToAck]

(* Variant: the read pointer goes back to the start of the ack file *)
revertRead_FileStart(s) ==
  [s EXCEPT !.readFileIndex = s.ackFileIndex, !.nextToRetrieve = 0]

(* checkin, revert branches: the read pointer moves back to the ack pointer *)
revertRead(s) ==
  [s EXCEPT !.readFileIndex = s.ackFileIndex, !.nextToRetrieve = s.nextToAck]

-----------------------------------------------------------------------------
(* The step tracker and the step store.                                     *)
(*                                                                          *)
(* Times and counts are kept as integers.  The source computes with         *)
(* unsigned long: a difference that would be negative wraps to a large      *)
(* value there, so it counts as greater than any threshold here, and the    *)
(* bytes taken from it are those of its two's complement.                   *)

(* The four bytes of a 32-bit value, low byte first (lines 537-540) *)
Bytes4(x) == <<x % 256, (x \div 256) % 256, (x \div 65536) % 256,
               (x \div 16777216) % 256>>

(* The two low bytes of a value, low byte first (lines 830-838) *)
Bytes2(x) == <<x % 256, (x \div 256) % 256>>

(* The value of two bytes, low byte first *)
Word2(bytes) == bytes[1] + (256 * bytes[2])

(* unsigned a - b > c *)
UnsignedGreater(d, c) == (d < 0) \/ (d > c)

Steps == [detectingSteps |-> detectingSteps, stepCount |-> stepCount,
          stepStartTime |-> stepStartTime, stepEndTime |-> stepEndTime,
          lastActive |-> lastActive, activeTime |-> activeTime,
          active |-> active, imuStepCount |-> imuStepCount,
          liveStepChar |-> liveStepChar,
          writeFileIndexStep |-> writeFileIndexStep,
          readFileIndexStep |-> readFileIndexStep,
          nextToPlaceStep |-> nextToPlaceStep,
          nextToRetrieveStep |-> nextToRetrieveStep,
          flashFilesStep |-> flashFilesStep,
          toMemBuffStep |-> toMemBuffStep,
          fromMemBuffStep |-> fromMemBuffStep,
          retStep |-> retStep, stepChar |-> stepChar]

SetSteps(s) ==
  /\ detectingSteps' = s.detectingSteps
  /\ stepCount' = s.stepCount
  /\ stepStartTime' = s.stepStartTime
  /\ stepEndTime' = s.stepEndTime
  /\ lastActive' = s.lastActive
  /\ activeTime' = s.activeTime
  /\ active' = s.active
  /\ imuStepCount' = s.imuStepCount
  /\ liveStepChar' = s.liveStepChar
  /\ writeFileIndexStep' = s.writeFileIndexStep
  /\ readFileIndexStep' = s.readFileIndexStep
  /\ nextToPlaceStep' = s.nextToPlaceStep
  /\ nextToRetrieveStep' = s.nextToRetrieveStep
  /\ flashFilesStep' = s.flashFilesStep
  /\ toMemBuffStep' = s.toMemBuffStep
  /\ fromMemBuffStep' = s.fromMemBuffStep
  /\ retStep' = s.retStep
  /\ stepChar' = s.stepChar

SlotOfStep(offset) == (offset \div DSIZE_STEP) + 1

(* switchReadFilesStep: start reading from the next file *)
switchReadFilesStep(s) ==
  [s EXCEPT !.readFileIndexStep = (s.readFileIndexStep + 1) % NUM_BUFFS_STEP,
            !.nextToRetrieveStep = 0]

(* switchWriteFilesStep: erase the next file, write from its start, and     *)
(* evict the read pointer from it                                           *)
switchWriteFilesStep(s) ==
  LET w == (s.writeFileIndexStep + 1) % NUM_BUFFS_STEP
      s1 == [s EXCEPT !.writeFileIndexStep = w,
                      !.flashFilesStep[w] = [i \in DOMAIN @ |-> ErasedStep],
                      !.nextToPlaceStep = 0]
  IN IF s1.writeFileIndexStep = s1.readFileIndexStep
     THEN switchReadFilesStep(s1) ELSE s1

(* placeInMemoryStep: store toMemBuffStep at the write pointer *)
placeInMemoryStep(s) ==
  LET s1 == [s EXCEPT
               !.flashFilesStep[s.writeFileIndexStep][SlotOfStep(s.nextToPlaceStep)] =
                   IF @ = ErasedStep THEN s.toMemBuffStep ELSE CorruptStep,
               !.nextToPlaceStep = @ + DSIZE_STEP]
  IN IF s1.nextToPlaceStep >= FSIZE_STEP THEN switchWriteFilesStep(s1) ELSE s1

(* retrieveFromMemoryStep: read the record at the read pointer *)
retrieveFromMemoryStep(s) ==
  IF (s.readFileIndexStep = s.writeFileIndexStep)
       /\ (s.nextToRetrieveStep >= s.nextToPlaceStep)
  THEN [s EXCEPT !.retStep = FALSE]
  ELSE LET s1 == [s EXCEPT
                    !.fromMemBuffStep =
                        s.flashFilesStep[s.readFileIndexStep]
                                        [SlotOfStep(s.nextToRetrieveStep)],
                    !.nextToRetrieveStep = @ + DSIZE_STEP,
                    !.retStep = TRUE]
       IN IF s1.nextToRetrieveStep >= FSIZE_STEP
          THEN switchReadFilesStep(s1) ELSE s1

(* liveSendStep: send the next excursion record, if there is one *)
liveSendStep(s) ==
  LET s1 == retrieveFromMemoryStep(s)
  IN IF s1.retStep THEN [s1 EXCEPT !.stepChar = s1.fromMemBuffStep] ELSE s1

(* The ten bytes of an excursion record, lines 825-839 *)
StepPackage(start, offset, count, activeSecs) ==
  Bytes4(start) \o Bytes2(offset) \o Bytes2(count) \o Bytes2(activeSecs)

(* checkForSteps, lines 761-790: the step count has changed *)
stepDelta(s, currentTime, connected) ==
  [s EXCEPT !.stepCount = s.imuStepCount,
            !.stepEndTime = currentTime,
            !.lastActive = IF s.active THEN @ ELSE currentTime,
            !.active = TRUE,
            !.liveStepChar = IF connected THEN Bytes2(s.imuStepCount) ELSE @]

(* Variant: the active time is counted up to the time of the call *)
stopActive_UntilNow(s, currentTime) ==
  IF s.active /\ UnsignedGreater(currentTime - s.lastActive, ACTIVE_THRESHOLD)
  THEN [s EXCEPT !.activeTime = @ + (currentTime - s.lastActive),
                 !.active = FALSE]
  ELSE s

(* checkForSteps, lines 796-801: no step for a while, stop the active time *)
stopActive(s, currentTime) ==
  IF s.active /\ UnsignedGreater(currentTime - s.lastActive, ACTIVE_THRESHOLD)
  THEN [s EXCEPT !.activeTime = @ + (s.stepEndTime - s.lastActive),
                 !.active = FALSE]
  ELSE s

(* Variant: the length of the excursion is measured up to the time of the   *)
(* call                                                                     *)
closeExcursion_OffsetNow(s, currentTime) ==
  IF UnsignedGreater(currentTime - s.stepEndTime, MAX_SECS_BETWEEN_STEPS)
  THEN LET stepOffset == currentTime - s.stepStartTime
           s1 == placeInMemoryStep(
                   [s EXCEPT !.toMemBuffStep =
                       StepPackage(s.stepStartTime, stepOffset,
                                   s.stepCount, s.activeTime)])
       IN [s1 EXCEPT !.imuStepCount = 0,
                     !.stepCount = 0,
                     !.detectingSteps = FALSE]
  ELSE s

(* checkForSteps, lines 805-853: no step for long, close the excursion *)
closeExcursion(s, currentTime) ==
  IF UnsignedGreater(currentTime - s.stepEndTime, MAX_SECS_BETWEEN_STEPS)
  THEN LET stepOffset == s.stepEndTime - s.stepStartTime
           s1 == placeInMemoryStep(
                   [s EXCEPT !.toMemBuffStep =
                       StepPackage(s.stepStartTime, stepOffset,
                                   s.stepCount, s.activeTime)])
       IN [s1 EXCEPT !.imuStepCount = 0,
                     !.stepCount = 0,
                     !.detectingSteps = FALSE]
  ELSE s

(* checkForSteps, lines 858-878: not in an excursion; start one? *)
startExcursion(s, currentTime) ==
  IF s.imuStepCount > 0
  THEN [s EXCEPT !.stepStartTime = currentTime,
                 !.activeTime = 0,
                 !.lastActive = currentTime,
                 !.active = TRUE,
                 !.detectingSteps = TRUE]
  ELSE s

(* checkForSteps *)
checkForSteps(s, currentTime, connected) ==
  IF s.detectingSteps
  THEN IF s.stepCount # s.imuStepCount
       THEN stepDelta(s, currentTime, connected)
       ELSE closeExcursion(stopActive(s, currentTime), currentTime)
  ELSE startExcursion(s, currentTime)

-----------------------------------------------------------------------------
(* The QRS detector, detect(), lines 1127-1251, and the BPM average of      *)
(* updateHeartRate().  The code computes in float; here the values are      *)
(* integers: hp_buff holds M times the value of the code, and lp_sum,       *)
(* next_eval_pt, threshold and win_max hold M * M times the value of the    *)
(* code, so that the filters are exact; the forgetting factor alpha is      *)
(* given in hundredths, and the new threshold is rounded down.              *)

(* map(value, 0, 1023, 0, 100), line 1052: the sample scaled for the graph *)
mapEcg(value) == (value * 100) \div 1023

(* updateHeartRate(), lines 1043-1056: every third sample is queued for the *)
(* peer while connected, unless the queue holds 70                          *)
fillEcgQueue(next_ecg_pt) ==
  /\ IF bleConnected /\ safeToFill
     THEN IF ecgQCount + 1 > 2 /\ Len(ecgQueue) < 70
          THEN /\ ecgQueue' = Append(ecgQueue, mapEcg(next_ecg_pt))
               /\ ecgQCount' = 0
          ELSE /\ ecgQCount' = ecgQCount + 1
               /\ UNCHANGED ecgQueue
     ELSE UNCHANGED <<ecgQueue, ecgQCount>>
  /\ UNCHANGED <<safeToFill, ecgChar>>

(* interval between two samples in microseconds, line 240 *)
PERIOD == 1000000 \div win_size

(* alpha, lines 1238-1239: between 0.01 and 0.1, in hundredths *)
Alphas == {1, 9}

(* The signals at the ECG pin *)
Signals == {"zero", "flat", "pulse", "burst", "growing"}

(* analogRead(ECG_PIN) for the n-th sample of a signal *)
EcgAt(sig, n) ==
  CASE sig = "zero" -> 0
    [] sig = "flat" -> 50
    [] sig = "pulse" -> IF n % 120 < 4 THEN 90 ELSE 10
    [] sig = "burst" -> IF n % 40 < 4 THEN 90 ELSE 10
    [] sig = "growing" -> IF n % 2 = 0 THEN n \div 5 ELSE 0

Detector == [ecg_buff |-> ecg_buff, ecg_buff_WR_idx |-> ecg_buff_WR_idx,
             ecg_buff_RD_idx |-> ecg_buff_RD_idx,
             hp_buff |-> hp_buff, hp_buff_WR_idx |-> hp_buff_WR_idx,
             hp_buff_RD_idx |-> hp_buff_RD_idx,
             next_eval_pt |-> next_eval_pt, hp_sum |-> hp_sum,
             lp_sum |-> lp_sum, threshold |-> threshold,
             triggered |-> triggered, trig_time |-> trig_time,
             win_max |-> win_max, win_idx |-> win_idx,
             number_iter |-> number_iter,
             result |-> FALSE, thresholdAtTest |-> threshold,
             updated |-> FALSE]

SetDetector(d) ==
  /\ ecg_buff' = d.ecg_buff
  /\ ecg_buff_WR_idx' = d.ecg_buff_WR_idx
  /\ ecg_buff_RD_idx' = d.ecg_buff_RD_idx
  /\ hp_buff' = d.hp_buff
  /\ hp_buff_WR_idx' = d.hp_buff_WR_idx
  /\ hp_buff_RD_idx' = d.hp_buff_RD_idx
  /\ next_eval_pt' = d.next_eval_pt
  /\ hp_sum' = d.hp_sum
  /\ lp_sum' = d.lp_sum
  /\ threshold' = d.threshold
  /\ triggered' = d.triggered
  /\ trig_time' = d.trig_time
  /\ win_max' = d.win_max
  /\ win_idx' = d.win_idx
  /\ number_iter' = d.number_iter

(* Variant: an index that went below zero comes round one place short *)
WrapIdx_Short(i, size) == IF i < 0 THEN i + size - 1 ELSE i

(* An index that went below zero comes round, lines 1145, 1153, 1183 *)
WrapIdx(i, size) == IF i < 0 THEN i + size ELSE i

(* detect(), lines 1129-1168: the sample into the ring, the high pass *)
highPass(d, new_ecg_pt) ==
  LET buff == [d.ecg_buff EXCEPT ![d.ecg_buff_WR_idx] = new_ecg_pt]
      rd == d.ecg_buff_RD_idx
      sum == d.hp_sum + buff[rd]
      out == sum - buff[WrapIdx(rd - M, M + 1)]
      y2 == buff[WrapIdx(rd - ((M + 1) \div 2), M + 1)]
  IN [d EXCEPT
        !.ecg_buff = buff,
        !.ecg_buff_WR_idx = (@ + 1) % (M + 1),
        !.hp_sum = IF d.number_iter < M THEN sum ELSE out,
        !.hp_buff[d.hp_buff_WR_idx] =
            IF d.number_iter < M THEN 0 ELSE (M * y2) - out,
        !.ecg_buff_RD_idx = (@ + 1) % (M + 1),
        !.hp_buff_WR_idx = (@ + 1) % (N + 1)]

(* Variant: the sum of the squares is given out while the window fills *)
lowPass_NoFill(d) ==
  LET rd == d.hp_buff_RD_idx
      sum == d.lp_sum + (d.hp_buff[rd] * d.hp_buff[rd])
      old == d.hp_buff[WrapIdx(rd - N, N + 1)]
      out == sum - (old * old)
  IN [d EXCEPT
        !.lp_sum = IF d.number_iter < N THEN sum ELSE out,
        !.next_eval_pt = IF d.number_iter < N THEN sum ELSE out,
        !.hp_buff_RD_idx = (@ + 1) % (N + 1)]

(* detect(), lines 1171-1193: the low pass over the squares *)
lowPass(d) ==
  LET rd == d.hp_buff_RD_idx
      sum == d.lp_sum + (d.hp_buff[rd] * d.hp_buff[rd])
      old == d.hp_buff[WrapIdx(rd - N, N + 1)]
      out == sum - (old * old)
  IN [d EXCEPT
        !.lp_sum = IF d.number_iter < N THEN sum ELSE out,
        !.next_eval_pt = IF d.number_iter < N THEN 0 ELSE out,
        !.hp_buff_RD_idx = (@ + 1) % (N + 1)]

(* detect(), lines 1197-1204: the threshold of the first window *)
initThreshold(d) ==
  IF d.number_iter < win_size
  THEN [d EXCEPT !.threshold = IF d.next_eval_pt > @ THEN d.next_eval_pt ELSE @,
                 !.number_iter = @ + 1]
  ELSE d

(* Variant: the hold-off ends one sample earlier *)
holdOff_Short(d) ==
  IF d.triggered
  THEN IF d.trig_time + 1 >= 99
       THEN [d EXCEPT !.triggered = FALSE, !.trig_time = 0]
       ELSE [d EXCEPT !.trig_time = @ + 1]
  ELSE d

(* detect(), lines 1207-1214: has the hold-off passed? *)
holdOff(d) ==
  IF d.triggered
  THEN IF d.trig_time + 1 >= 100
       THEN [d EXCEPT !.triggered = FALSE, !.trig_time = 0]
       ELSE [d EXCEPT !.trig_time = @ + 1]
  ELSE d

(* detect(), line 1217: a new maximum of the window *)
newMax(d) ==
  [d EXCEPT !.win_max = IF d.next_eval_pt > @ THEN d.next_eval_pt ELSE @]

(* Variant: the threshold is moved on the win_size-th call *)
adapt_Window(d, a) ==
  IF d.win_idx + 1 >= win_size
  THEN [d EXCEPT !.threshold = ((7 * a * d.win_max) \div 4000)
                                 + (((100 - a) * @) \div 100),
                 !.win_idx = 0,
                 !.win_max = (-10000000) * M * M,
                 !.updated = TRUE]
  ELSE [d EXCEPT !.win_idx = @ + 1]

(* detect(), lines 1230-1247: every win_size calls the threshold is moved   *)
(* towards the maximum of the window, with alpha = a / 100, gamma = 0.175   *)
adapt(d, a) ==
  IF d.win_idx >= win_size
  THEN [d EXCEPT !.threshold = ((7 * a * d.win_max) \div 4000)
                                 + (((100 - a) * @) \div 100),
                 !.win_idx = 0,
                 !.win_max = (-10000000) * M * M,
                 !.updated = TRUE]
  ELSE [d EXCEPT !.win_idx = @ + 1]

(* detect() *)
detect(d, new_ecg_pt, a) ==
  LET d1 == newMax(holdOff(initThreshold(lowPass(highPass(d, new_ecg_pt)))))
      d2 == [d1 EXCEPT !.thresholdAtTest = d1.threshold]
  IN IF d2.next_eval_pt > d2.threshold /\ ~d2.triggered
     THEN [d2 EXCEPT !.triggered = TRUE, !.result = TRUE]
     ELSE adapt(d2, a)

-----------------------------------------------------------------------------
(* Ring positions, counted in records: file index * DATA_PER_FILE + slot.   *)

WritePos == (writeFileIndex * DATA_PER_FILE) + (nextToPlace \div DSIZE)
ReadPos == (readFileIndex * DATA_PER_FILE) + (nextToRetrieve \div DSIZE)
AckPos == (ackFileIndex * DATA_PER_FILE) + (nextToAck \div DSIZE)

(* The content of the slot at a ring position *)
SlotAt(files, p) == files[p \div DATA_PER_FILE][(p % DATA_PER_FILE) + 1]

(* The number of single steps forward from ring position a to position b,   *)
(* found by stepping (not by subtraction).                                  *)
RECURSIVE StepsFrom(_, _)
StepsFrom(a, b) == IF a = b THEN 0 ELSE 1 + StepsFrom((a + 1) % STORAGE_LENGTH, b)

(* The contents of the slots from position a up to, not including, b *)
RECURSIVE Walk(_, _, _)
Walk(files, a, b) ==
  IF a = b THEN <<>>
  ELSE <<SlotAt(files, a)>> \o Walk(files, (a + 1) % STORAGE_LENGTH, b)

Range(q) == {q[i] : i \in DOMAIN q}

Last(q, n) == SubSeq(q, Len(q) - n + 1, Len(q))

IsPrefix(p, q) == Len(p) <= Len(q) /\ SubSeq(q, 1, Len(p)) = p

IsSuffix(p, q) == Len(p) <= Len(q) /\ Last(q, Len(p)) = p

(* q followed by those entries of r that q does not hold yet *)
RECURSIVE AddNew(_, _)
AddNew(q, r) ==
  IF r = <<>> THEN q
  ELSE AddNew(IF Head(r) \in Range(q) THEN q ELSE Append(q, Head(r)), Tail(r))

(* q without its first n entries *)
Drop(q, n) == IF n >= Len(q) THEN <<>> ELSE SubSeq(q, n + 1, Len(q))

-----------------------------------------------------------------------------
(* History: what the takes of one step returned (recs), and whether an      *)
(* append moved the read pointer (moved).  lost, kept in the overflow       *)
(* scenario only, holds the records that an append dropped from the stretch *)
(* between ack and write: the records that went from the chip before the    *)
(* peer confirmed them.                                                     *)

NoteTakes(recs) ==
  /\ lastTakes' = recs
  /\ taken' = taken \cup Range(recs)
  /\ sentWindow' = AddNew(sentWindow, recs)
  /\ pending' = Drop(pending, Len(recs))
  /\ fifoOut' = IF everReverted THEN fifoOut ELSE fifoOut \o recs
  /\ UNCHANGED <<appended, everReverted, evicted, lost>>

NotePlace(rec, moved) ==
  /\ appended' = Append(appended, rec)
  /\ evicted' = (evicted \/ moved)
  /\ lastTakes' = <<>>
  /\ UNCHANGED <<fifoOut, everReverted, taken, sentWindow, pending>>

NoteLost(rec) ==
  lost' = lost \cup ((Range(Walk(flashFiles, AckPos, WritePos)) \cup {rec})
                       \ Range(Walk(flashFiles', AckPos', WritePos')))

NoteCommit ==
  /\ sentWindow' = <<>>
  /\ lastTakes' = <<>>
  /\ UNCHANGED <<appended, fifoOut, everReverted, taken, pending, evicted,
                 lost>>

NoteRevert ==
  /\ pending' = Walk(flashFiles, AckPos, ReadPos)
  /\ evicted' = FALSE
  /\ everReverted' = TRUE
  /\ fifoOut' = <<>>
  /\ lastTakes' = <<>>
  /\ UNCHANGED <<appended, taken, sentWindow, lost>>

NoteNothing ==
  /\ lastTakes' = <<>>
  /\ UNCHANGED <<appended, fifoOut, everReverted, taken, sentWindow,
                 pending, evicted, lost>>

-----------------------------------------------------------------------------
(* setUpFlash / setup: everything erased, all pointers zero, not connected  *)

PowerOn ==
  /\ writeFileIndex = 0 /\ readFileIndex = 0 /\ ackFileIndex = 0
  /\ nextToPlace = 0 /\ nextToRetrieve = 0 /\ nextToAck = 0
  /\ flashFiles = [f \in 0..(NUM_BUFFS - 1) |->
                     [i \in 1..DATA_PER_FILE |-> Erased]]
  /\ toMemBuff = <<0, 0>> /\ fromMemBuff = <<0, 0>>
  /\ ret = FALSE
  /\ sentSinceCheckin = 0 /\ lastTimeSent = 0
  /\ bpmQueue = <<>>
  /\ items = 0 /\ regItems = 0 /\ popped = <<>> /\ produced = <<>>
  /\ bpmChar = <<>> /\ batchChar = <<>> /\ checkinChar = <<0, 0, 0, 0>>
  /\ linkUp = FALSE /\ checkinWritten = FALSE /\ disconnectRequested = FALSE
  /\ pc = "place"
  /\ clock = 1
  /\ appended = <<>> /\ fifoOut = <<>> /\ everReverted = FALSE
  /\ taken = {} /\ sentWindow = <<>> /\ pending = <<>> /\ evicted = FALSE
  /\ lastTakes = <<>> /\ op = "init"
  /\ lost = {}
  /\ detectingSteps = FALSE /\ stepCount = 0
  /\ stepStartTime = 0 /\ stepEndTime = 0
  /\ lastActive = 0 /\ activeTime = 0 /\ active = FALSE
  /\ imuStepCount = 0
  /\ writeFileIndexStep = 0 /\ readFileIndexStep = 0
  /\ nextToPlaceStep = 0 /\ nextToRetrieveStep = 0
  /\ flashFilesStep = [f \in 0..(NUM_BUFFS_STEP - 1) |->
                         [i \in 1..DATA_PER_FILE_STEP |-> ErasedStep]]
  /\ toMemBuffStep = [i \in 1..DSIZE_STEP |-> 0]
  /\ fromMemBuffStep = [i \in 1..DSIZE_STEP |-> 0]
  /\ retStep = FALSE
  /\ stepChar = <<>> /\ liveStepChar = <<>>
  /\ stepsTaken = 0 /\ stepRecords = <<>> /\ ticks = 0 /\ stepOp = "init"
  /\ ecg_buff = [i \in 0..M |-> 0]
  /\ ecg_buff_WR_idx = 0 /\ ecg_buff_RD_idx = 0
  /\ hp_buff = [i \in 0..N |-> 0]
  /\ hp_buff_WR_idx = 0 /\ hp_buff_RD_idx = 0
  /\ next_eval_pt = 0 /\ hp_sum = 0 /\ lp_sum = 0
  /\ threshold = 0 /\ triggered = FALSE /\ trig_time = 0
  /\ win_max = 0 /\ win_idx = 0 /\ number_iter = 0
  /\ bpm = 0 /\ bpm_buff = [i \in 0..(BPM_BUFFER_SIZE - 1) |-> 0]
  /\ bpm_buff_WR_idx = 0 /\ bpm_buff_RD_idx = 0
  /\ found_time_micros = 0 /\ old_found_time_micros = 0
  /\ micros = 0
  /\ samples = 0 /\ accepts = <<>> /\ updates = <<>>
  /\ QRS_detected = FALSE /\ thresholdAtTest = 0
  /\ ecgQueue = <<>> /\ ecgQCount = 0 /\ safeToFill = TRUE /\ ecgChar = <<>>

(* The state after setup(): the time is not set, the leads are on a quiet   *)
(* signal                                                                   *)
Init ==
  /\ PowerOn
  /\ timeInitiated = FALSE
  /\ bleConnected = FALSE
  /\ signal = "zero"

-----------------------------------------------------------------------------
(* Spec: the store, one call per step.                                      *)

(* placeInMemory() with a fresh record in toMemBuff *)
Place ==
  /\ Len(appended) < MaxBeats
  /\ \E b \in BpmValues :
       LET rec == <<b, clock>>
           s == placeInMemory([Store EXCEPT !.toMemBuff = rec])
       IN /\ SetStore(s)
          /\ NotePlace(rec, s.readFileIndex # readFileIndex)
  /\ clock' = clock + 1
  /\ op' = "place"
  /\ UNCHANGED <<raceVars, ecgQVars, ecgVars, stepVars, protoVars, linkUp, checkinWritten, disconnectRequested, pc,
                 lost>>

(* retrieveFromMemory() *)
Take ==
  /\ LET s == retrieveFromMemory(Store)
     IN /\ SetStore(s)
        /\ NoteTakes(IF s.ret THEN <<s.fromMemBuff>> ELSE <<>>)
  /\ op' = "take"
  /\ UNCHANGED <<raceVars, ecgQVars, ecgVars, stepVars, protoVars, envVars, pc>>

(* checkin(), lines 1008-1009: the peer confirmed, ack moves up to read *)
Commit ==
  /\ SetStore(commitAck(Store))
  /\ NoteCommit
  /\ op' = "commit"
  /\ UNCHANGED <<raceVars, ecgQVars, ecgVars, stepVars, protoVars, envVars, pc>>

(* checkin(), lines 991-992 and 1018-1019: read moves back to ack *)
Revert ==
  /\ SetStore(revertRead(Store))
  /\ NoteRevert
  /\ op' = "revert"
  /\ UNCHANGED <<raceVars, ecgQVars, ecgVars, stepVars, protoVars, envVars, pc>>

Next == Place \/ Take \/ Commit \/ Revert

Spec == Init /\ [][Next]_vars

-----------------------------------------------------------------------------
(* SpecOverflow: the overflow scenario.  One full ring plus Excess records  *)
(* are appended, Excess being less than a file holds (5 against 16000 in    *)
(* the source's dimensions), with takes, commits and reverts in between in  *)
(* any order.                                                               *)

Excess == DATA_PER_FILE - 1

(* placeInMemory() with a fresh record in toMemBuff *)
OverflowPlace ==
  /\ Len(appended) < STORAGE_LENGTH + Excess
  /\ \E b \in BpmValues :
       LET rec == <<b, clock>>
           s == placeInMemory([Store EXCEPT !.toMemBuff = rec])
       IN /\ SetStore(s)
          /\ NotePlace(rec, s.readFileIndex # readFileIndex)
          /\ NoteLost(rec)
  /\ clock' = clock + 1
  /\ op' = "place"
  /\ UNCHANGED <<raceVars, ecgQVars, ecgVars, stepVars, protoVars, linkUp, checkinWritten, disconnectRequested, pc>>

NextOverflow == OverflowPlace \/ Take \/ Commit \/ Revert

SpecOverflow == Init /\ [][NextOverflow]_vars

-----------------------------------------------------------------------------
(* SpecSteps: the step tracker, one call of checkForSteps per step, with    *)
(* the wearer (who takes steps) and the clock as environment.  The calls    *)
(* come at any times: loop() calls checkForSteps once per pass, and a pass  *)
(* can take any time (obtainInitTime waits for the peer).                   *)

(* History of a call of checkForSteps that leads from the current state to  *)
(* s: the record it appended, if it moved the write pointer, and what it    *)
(* did.                                                                     *)
NotePoll(s) ==
  /\ stepRecords' =
       IF <<s.writeFileIndexStep, s.nextToPlaceStep>> #
            <<writeFileIndexStep, nextToPlaceStep>>
       THEN Append(stepRecords, s.toMemBuffStep) ELSE stepRecords
  /\ stepOp' = IF detectingSteps /\ ~s.detectingSteps THEN "close"
               ELSE IF ~detectingSteps /\ s.detectingSteps THEN "start"
               ELSE IF <<s.stepCount, s.stepEndTime>> # <<stepCount, stepEndTime>>
                    THEN "delta"
               ELSE IF s.active # active THEN "inactive"
               ELSE "idle"
  /\ UNCHANGED <<stepsTaken, ticks>>

(* The wearer takes a step: the sensor counts it *)
StepTaken ==
  /\ stepsTaken < MaxSteps
  /\ imuStepCount' = (imuStepCount + 1) % ImuWrap
  /\ stepsTaken' = stepsTaken + 1
  /\ UNCHANGED <<raceVars, ecgQVars, ecgVars, storeVars, protoVars, envVars, histVars, pc,
                 detectingSteps, stepCount, stepStartTime, stepEndTime,
                 lastActive, activeTime, active, liveStepChar,
                 stepStoreVars, stepRecords, ticks, stepOp>>

(* Time passes *)
Tick ==
  /\ ticks < MaxTicks
  /\ \E d \in TickSteps : clock' = clock + d
  /\ ticks' = ticks + 1
  /\ UNCHANGED <<raceVars, ecgQVars, ecgVars, storeVars, protoVars, linkUp, checkinWritten,
                 disconnectRequested, histVars, pc,
                 trackVars, stepStoreVars, stepsTaken, stepRecords, stepOp>>

(* checkForSteps() *)
Poll ==
  /\ LET s == checkForSteps(Steps, clock, bleConnected)
     IN /\ SetSteps(s)
        /\ NotePoll(s)
  /\ UNCHANGED <<raceVars, ecgQVars, ecgVars, storeVars, protoVars, envVars, histVars, pc>>

NextSteps == StepTaken \/ Tick \/ Poll

SpecSteps == Init /\ [][NextSteps]_vars

-----------------------------------------------------------------------------
(* A walk of four steps, checked under SpecScenario: the wearer takes steps *)
(* at T0, T0 + 10, T0 + 20 and T0 + 90, and each step is seen by the call   *)
(* of checkForSteps that follows it within the same second.  Between the    *)
(* steps the calls come at any times, or not at all.                        *)

(* The time of the first step: the clock of the initial state *)
T0 == 1

(* The times of the steps, counted from T0 *)
ScenarioTimes == <<0, 10, 20, 90>>

(* The scenario is followed up to this time after T0 *)
ScenarioEnd == 160

(* The tracker has seen every step the sensor has counted *)
StepsSeen == detectingSteps /\ stepCount = imuStepCount

(* The wearer takes the next step of the walk at its time *)
ScenarioStep ==
  /\ stepsTaken < Len(ScenarioTimes)
  /\ clock = T0 + ScenarioTimes[stepsTaken + 1]
  /\ StepTaken

(* Ten seconds pass: not before the step due now is taken and seen *)
ScenarioTick ==
  /\ clock < T0 + ScenarioEnd
  /\ \A i \in 1..Len(ScenarioTimes) :
       (clock = T0 + ScenarioTimes[i]) => (stepsTaken >= i /\ StepsSeen)
  /\ clock' = clock + 10
  /\ UNCHANGED <<raceVars, ecgQVars, ecgVars, storeVars, protoVars, linkUp, checkinWritten,
                 disconnectRequested, histVars, pc, stepVars>>

NextScenario == ScenarioStep \/ ScenarioTick \/ Poll

SpecScenario == Init /\ [][NextScenario]_vars

-----------------------------------------------------------------------------
(* SpecLoop: loop() (lines 412-459), the timer interrupt and the peer.      *)
(*                                                                          *)
(* loop() is cut at its blocking points and between its calls:              *)
(*   "place"           line 414, the queue test and placeInMemory           *)
(*   "proto"           line 432, the connection test                        *)
(*   "checkinWait"     line 973, the one-second delay inside checkin()      *)
(*   "send"            line 441, after checkin() or instead of it           *)
(*   "obtainInitTime"  line 508, the wait for the peer's time               *)
(* op names the last call loop() made; the interrupt and the peer do not    *)
(* change it.                                                               *)

(* The five bytes sent for one record: time stamp, then the BPM as a byte   *)
(* (lines 549-550 and 600-604)                                              *)
Package(buf) == Bytes4(buf[2]) \o <<buf[1] % 256>>

(* What the peer may write to the checkin characteristic: the              *)
(* acknowledgment 1 or 0 in the last byte, or the time (epoch seconds, low  *)
(* byte first; the high byte of a present-day time is 89 or more).          *)
PeerValues == {<<0, 0, 0, 1>>, <<0, 0, 0, 0>>, <<0, 0, 0, 89>>}

(* Content of a part of batchCharArray that no record was copied to (an     *)
(* uninitialised local array, line 580)                                     *)
Garbage == {<<0, 0, 0, 0, 0>>, <<255, 255, 255, 255, 255>>}

(* Variant: a checkin is due one send earlier *)
needCheckin_AtLeast == sentSinceCheckin >= timeToCheckin

(* loop(), line 435: is a checkin due? *)
needCheckin == sentSinceCheckin > timeToCheckin

(* updateHeartRate() on a tick where detect() found a beat, lines 1077-1081: *)
(* the average and now() are queued once the time has been set.  Every beat *)
(* falls in a second of its own, so a record is known by its time stamp.    *)
Beat ==
  /\ clock <= MaxLoopBeats
  /\ Len(bpmQueue) < 2 * MaxQueue
  /\ IF timeInitiated
     THEN /\ \E b \in BpmValues : bpmQueue' = bpmQueue \o <<b, clock>>
          /\ clock' = clock + 1
     ELSE UNCHANGED <<bpmQueue, clock>>
  /\ UNCHANGED <<raceVars, ecgQVars, ecgVars, stepVars, storeVars, bleConnected, timeInitiated, sentSinceCheckin,
                 lastTimeSent, bpmChar, batchChar, checkinChar,
                 linkUp, checkinWritten, disconnectRequested, histVars, pc>>

(* A central connects.  It cannot do so in the stretch between the return   *)
(* of checkin() and the test of blePeripheral.connected(), which does not   *)
(* block.                                                                   *)
PeerConnect ==
  /\ ~linkUp
  /\ pc # "send"
  /\ linkUp' = TRUE
  /\ disconnectRequested' = FALSE
  /\ UNCHANGED <<raceVars, ecgQVars, ecgVars, stepVars, storeVars, protoVars, checkinWritten, clock, histVars, pc>>

(* The link is lost *)
PeerDisconnect ==
  /\ linkUp
  /\ linkUp' = FALSE
  /\ UNCHANGED <<raceVars, ecgQVars, ecgVars, stepVars, storeVars, protoVars, checkinWritten, disconnectRequested,
                 clock, histVars, pc>>

(* The peer writes the checkin characteristic *)
PeerWrite ==
  /\ linkUp
  /\ \E v \in PeerValues : checkinChar' = v
  /\ checkinWritten' = TRUE
  /\ UNCHANGED <<raceVars, ecgQVars, ecgVars, stepVars, storeVars, bleConnected, timeInitiated, sentSinceCheckin,
                 lastTimeSent, bpmQueue, bpmChar, batchChar,
                 linkUp, disconnectRequested, clock, histVars, pc>>

(* Variant: checkForSteps() is called in every pass *)
pollsSteps_Always == TRUE

(* loop(), line 428: is checkForSteps() called in this pass? *)
pollsSteps == timeInitiated

(* sendECG(), lines 617-637: the oldest NUM_ECGS samples go to the peer     *)
sendECG ==
  /\ IF Len(ecgQueue) >= NUM_ECGS
     THEN /\ ecgChar' = SubSeq(ecgQueue, 1, NUM_ECGS)
          /\ ecgQueue' = Drop(ecgQueue, NUM_ECGS)
     ELSE UNCHANGED <<ecgQueue, ecgChar>>
  /\ safeToFill' = TRUE
  /\ UNCHANGED ecgQCount

(* loop(), lines 414-430: the oldest queued beat goes to the store,         *)
(* sendECG() is called, and checkForSteps() once the time has been set      *)
LoopPlace ==
  /\ pc = "place"
  /\ pc' = "proto"
  /\ IF Len(bpmQueue) >= 2
     THEN LET heartRate == bpmQueue[1]
              timeStamp == bpmQueue[2]
              rec == <<heartRate, timeStamp>>
              s == placeInMemory([Store EXCEPT !.toMemBuff = rec])
          IN /\ bpmQueue' = Drop(bpmQueue, 2)
             /\ SetStore(s)
             /\ NotePlace(rec, s.readFileIndex # readFileIndex)
             /\ op' = "placeInMemory"
             /\ UNCHANGED lost
     ELSE /\ UNCHANGED <<bpmQueue, storeVars>>
          /\ NoteNothing
          /\ op' = "nothingToPlace"
  /\ IF pollsSteps
     THEN LET t == checkForSteps(Steps, clock, bleConnected)
          IN SetSteps(t) /\ NotePoll(t)
     ELSE UNCHANGED stepVars
  /\ sendECG
  /\ UNCHANGED <<raceVars, ecgVars, bleConnected, timeInitiated, sentSinceCheckin, lastTimeSent,
                 bpmChar, batchChar, checkinChar, envVars>>

(* tryToConnect(), lines 462-466: is there a central? *)
LoopTryToConnect ==
  /\ pc = "proto" /\ ~bleConnected
  /\ pc' = IF linkUp THEN "obtainInitTime" ELSE "place"
  /\ op' = "tryToConnect"
  /\ NoteNothing
  /\ UNCHANGED <<raceVars, ecgQVars, ecgVars, stepVars, storeVars, protoVars, envVars>>

(* tryToConnect(), lines 474-487, with obtainInitTime(), lines 504-531: once *)
(* the peer has written the time, timeInitiated and bleConnected are set.   *)
(* The peer's time is the time, so now() reads clock from here on.          *)
LoopObtainInitTime ==
  /\ pc = "obtainInitTime"
  /\ checkinWritten
  /\ checkinWritten' = FALSE
  /\ timeInitiated' = TRUE
  /\ bleConnected' = TRUE
  /\ pc' = "place"
  /\ op' = "obtainInitTime"
  /\ NoteNothing
  /\ UNCHANGED <<raceVars, ecgQVars, ecgVars, stepVars, storeVars, sentSinceCheckin, lastTimeSent, bpmQueue, bpmChar,
                 batchChar, checkinChar, linkUp, disconnectRequested, clock>>

(* checkin(), lines 961-973: send the last time stamp, then wait a second *)
LoopCheckinSend ==
  /\ pc = "proto" /\ bleConnected /\ needCheckin
  /\ sentSinceCheckin' = 0
  /\ checkinChar' = Bytes4(lastTimeSent)
  /\ pc' = "checkinWait"
  /\ op' = "checkinSend"
  /\ NoteNothing
  /\ UNCHANGED <<raceVars, ecgQVars, ecgVars, stepVars, storeVars, bleConnected, timeInitiated, lastTimeSent,
                 bpmQueue, bpmChar, batchChar, envVars>>

(* checkin(), lines 977-997: nothing written; disconnect (which may fail)   *)
(* and revert the read pointer                                              *)
LoopCheckinTimeout ==
  /\ pc = "checkinWait"
  /\ ~checkinWritten
  /\ \E success \in BOOLEAN : linkUp' = (linkUp /\ ~success)
  /\ disconnectRequested' = TRUE
  /\ SetStore(revertRead(Store))
  /\ NoteRevert
  /\ pc' = "send"
  /\ op' = "checkinTimeout"
  /\ UNCHANGED <<raceVars, ecgQVars, ecgVars, stepVars, protoVars, checkinWritten, clock>>

(* checkin(), lines 998-1012: the peer wrote a 1 *)
LoopCheckinCommit ==
  /\ pc = "checkinWait"
  /\ checkinWritten
  /\ checkinChar[4] = 1
  /\ checkinWritten' = FALSE
  /\ SetStore(commitAck(Store))
  /\ NoteCommit
  /\ pc' = "send"
  /\ op' = "checkinCommit"
  /\ UNCHANGED <<raceVars, ecgQVars, ecgVars, stepVars, protoVars, linkUp, disconnectRequested, clock>>

(* checkin(), lines 1017-1023: the peer wrote anything else *)
LoopCheckinRevert ==
  /\ pc = "checkinWait"
  /\ checkinWritten
  /\ checkinChar[4] # 1
  /\ checkinWritten' = FALSE
  /\ SetStore(revertRead(Store))
  /\ NoteRevert
  /\ pc' = "send"
  /\ op' = "checkinRevert"
  /\ UNCHANGED <<raceVars, ecgQVars, ecgVars, stepVars, protoVars, linkUp, disconnectRequested, clock>>

(* Variant: line 441 is reached without the test of bleConnected *)
AtSend_Unconnected == pc = "send" \/ (pc = "proto" /\ ~needCheckin)

(* loop() reaches line 441: after checkin(), or when none was due *)
AtSend == pc = "send" \/ (pc = "proto" /\ bleConnected /\ ~needCheckin)

(* liveSend(), lines 534-556, then liveSendStep() *)
LoopLiveSend ==
  /\ AtSend /\ linkUp
  /\ caughtUp(Store)
  /\ LET s == retrieveFromMemory(Store)
     IN /\ SetStore(s)
        /\ IF s.ret
           THEN /\ bpmChar' = Package(s.fromMemBuff)
                /\ lastTimeSent' = s.fromMemBuff[2]
                /\ sentSinceCheckin' = sentSinceCheckin + 1
                /\ NoteTakes(<<s.fromMemBuff>>)
           ELSE /\ UNCHANGED <<bpmChar, lastTimeSent, sentSinceCheckin>>
                /\ NoteTakes(<<>>)
  /\ SetSteps(liveSendStep(Steps))
  /\ pc' = "place"
  /\ op' = "liveSend"
  /\ UNCHANGED <<raceVars, ecgQVars, ecgVars, stepHistVars, bleConnected, timeInitiated, bpmQueue, batchChar,
                 checkinChar, envVars>>

(* Variant: the records of a batch count towards the next checkin *)
LoopBatchSend_Counted ==
  /\ AtSend /\ linkUp
  /\ ~caughtUp(Store)
  /\ \E g \in Garbage :
       LET s1 == retrieveFromMemory(Store)
           s2 == retrieveFromMemory(s1)
           s3 == retrieveFromMemory(s2)
           s4 == retrieveFromMemory(s3)
           part(s) == IF s.ret THEN Package(s.fromMemBuff) ELSE g
           got(s) == IF s.ret THEN <<s.fromMemBuff>> ELSE <<>>
       IN /\ SetStore(s4)
          /\ batchChar' = <<part(s1), part(s2), part(s3), part(s4)>>
          /\ NoteTakes(got(s1) \o got(s2) \o got(s3) \o got(s4))
  /\ SetSteps(liveSendStep(Steps))
  /\ sentSinceCheckin' = sentSinceCheckin + NUM_PCKGS
  /\ pc' = "place"
  /\ op' = "batchSend"
  /\ UNCHANGED <<raceVars, ecgQVars, ecgVars, stepHistVars, bleConnected, timeInitiated, lastTimeSent,
                 bpmQueue, bpmChar, checkinChar, envVars>>

(* batchSend(), lines 579-614: four takes; a take that fails leaves its     *)
(* part of the array as it was; then liveSendStep()                         *)
LoopBatchSend ==
  /\ AtSend /\ linkUp
  /\ ~caughtUp(Store)
  /\ \E g \in Garbage :
       LET s1 == retrieveFromMemory(Store)
           s2 == retrieveFromMemory(s1)
           s3 == retrieveFromMemory(s2)
           s4 == retrieveFromMemory(s3)
           part(s) == IF s.ret THEN Package(s.fromMemBuff) ELSE g
           got(s) == IF s.ret THEN <<s.fromMemBuff>> ELSE <<>>
       IN /\ SetStore(s4)
          /\ batchChar' = <<part(s1), part(s2), part(s3), part(s4)>>
          /\ NoteTakes(got(s1) \o got(s2) \o got(s3) \o got(s4))
  /\ SetSteps(liveSendStep(Steps))
  /\ pc' = "place"
  /\ op' = "batchSend"
  /\ UNCHANGED <<raceVars, ecgQVars, ecgVars, stepHistVars, bleConnected, timeInitiated, sentSinceCheckin, lastTimeSent,
                 bpmQueue, bpmChar, checkinChar, envVars>>

(* handleDisconnect(), lines 492-500 *)
LoopHandleDisconnect ==
  /\ AtSend /\ ~linkUp
  /\ safeToFill' = FALSE
  /\ bleConnected' = FALSE
  /\ pc' = "place"
  /\ op' = "handleDisconnect"
  /\ NoteNothing
  /\ UNCHANGED <<ecgVars, stepVars, storeVars, timeInitiated, sentSinceCheckin, lastTimeSent,
                 bpmQueue, bpmChar, batchChar, checkinChar, envVars,
                 ecgQueue, ecgQCount, ecgChar, raceVars>>

NextLoop ==
  \/ Beat \/ PeerConnect \/ PeerDisconnect \/ PeerWrite
  \/ LoopPlace \/ LoopTryToConnect \/ LoopObtainInitTime
  \/ LoopCheckinSend \/ LoopCheckinTimeout \/ LoopCheckinCommit
  \/ LoopCheckinRevert
  \/ LoopLiveSend \/ LoopBatchSend \/ LoopHandleDisconnect

SpecLoop == Init /\ [][NextLoop]_vars

-----------------------------------------------------------------------------
(* The main loop that keeps running, SpecLoopFair: the processor goes on    *)
(* with loop() whenever loop() can go on.  Nothing is assumed of the peer   *)
(* and of the heart.                                                        *)

(* A step of loop() *)
LoopStep ==
  \/ LoopPlace \/ LoopTryToConnect \/ LoopObtainInitTime
  \/ LoopCheckinSend \/ LoopCheckinTimeout \/ LoopCheckinCommit
  \/ LoopCheckinRevert
  \/ LoopLiveSend \/ LoopBatchSend \/ LoopHandleDisconnect

SpecLoopFair == SpecLoop /\ WF_vars(LoopStep)

-----------------------------------------------------------------------------
(* SpecDetect: the timer interrupt, updateHeartRate(), tick after tick on   *)
(* one of the signals.  The time has been set by a connection or not, and   *)
(* the device is still connected or not; loop() is not running, so the ECG  *)
(* queue fills up.                                                          *)

(* The samples in a behaviour; the ticks on which the leads are off *)
MaxSamples == 760
MaxOffTicks == 1

InitDetect ==
  /\ PowerOn
  /\ timeInitiated \in BOOLEAN
  /\ bleConnected \in BOOLEAN
  /\ bleConnected => timeInitiated
  /\ signal \in Signals

(* updateHeartRate(), lines 1029-1092, with the leads on *)
Sample ==
  /\ samples < MaxSamples
  /\ micros' = micros + PERIOD
  /\ samples' = samples + 1
  /\ fillEcgQueue(EcgAt(signal, samples + 1))
  /\ \E a \in Alphas :
       LET d == detect(Detector, EcgAt(signal, samples + 1), a)
           interval == micros' - old_found_time_micros
           buff == [bpm_buff EXCEPT ![bpm_buff_WR_idx] = 60000000 \div interval]
           sum == bpm + buff[bpm_buff_RD_idx]
           tmp == WrapIdx(bpm_buff_RD_idx - BPM_BUFFER_SIZE + 1,
                          BPM_BUFFER_SIZE)
       IN /\ SetDetector(d)
          /\ QRS_detected' = d.result
          /\ thresholdAtTest' = d.thresholdAtTest
          /\ accepts' = IF d.result THEN Append(accepts, samples') ELSE accepts
          /\ updates' = IF d.updated THEN Append(updates, samples') ELSE updates
          /\ IF d.result
             THEN /\ found_time_micros' = micros'
                  /\ bpm_buff' = buff
                  /\ bpm_buff_WR_idx' = (bpm_buff_WR_idx + 1) % BPM_BUFFER_SIZE
                  /\ bpmQueue' = IF timeInitiated
                                 THEN bpmQueue \o <<sum \div BPM_BUFFER_SIZE, clock>>
                                 ELSE bpmQueue
                  /\ bpm' = sum - buff[tmp]
                  /\ bpm_buff_RD_idx' = (bpm_buff_RD_idx + 1) % BPM_BUFFER_SIZE
                  /\ old_found_time_micros' = micros'
             ELSE UNCHANGED <<bpmVars, bpmQueue>>
  /\ UNCHANGED <<storeVars, bleConnected, timeInitiated, sentSinceCheckin,
                 lastTimeSent, bpmChar, batchChar, checkinChar, envVars,
                 histVars, pc, stepVars, signal, raceVars>>

(* Variant: the count that spaces out the ECG samples runs on while a lead *)
(* is off                                                                   *)
LeadsOff_Counted ==
  /\ samples < MaxSamples
  /\ (micros \div PERIOD) - samples < MaxOffTicks
  /\ micros' = micros + PERIOD
  /\ ecgQCount' = ecgQCount + 1
  /\ UNCHANGED <<ecgQueue, safeToFill, ecgChar, storeVars, protoVars, envVars,
                 histVars, pc, stepVars, detVars, bpmVars, signal,
                 detHistVars, raceVars>>

(* updateHeartRate(), lines 1036-1038, with a lead off: the tick passes *)
LeadsOff ==
  /\ samples < MaxSamples
  /\ (micros \div PERIOD) - samples < MaxOffTicks
  /\ micros' = micros + PERIOD
  /\ UNCHANGED <<raceVars, ecgQVars, storeVars, protoVars, envVars, histVars, pc, stepVars,
                 detVars, bpmVars, signal, detHistVars>>

NextDetect == Sample \/ LeadsOff

SpecDetect == InitDetect /\ [][NextDetect]_vars

-----------------------------------------------------------------------------
(* SpecRace: lines 414-421 of loop() access by access, with the timer       *)
(* interrupt.  The interrupt runs to its end once it has started; the loop  *)
(* runs with the interrupt enabled (no critical section around lines        *)
(* 414-418), so the interrupt may arrive between any two of the loop's      *)
(* accesses to bpmQueue, inside a call of dequeue() as well.  bpmQueue is a *)
(* QueueArray (line 109): a ring of cells with a count of its items that    *)
(* enqueue() increments and dequeue() decrements, the latter by reading the *)
(* count and writing it back one less.  In this specification bpmQueue      *)
(* holds the cells from head to tail and items the count.                   *)

(* Pairs the interrupt enqueues in a behaviour of SpecRace *)
MaxRacePairs == 4

InitRace ==
  /\ PowerOn
  /\ timeInitiated = TRUE
  /\ bleConnected = FALSE
  /\ signal = "zero"

(* updateHeartRate(), lines 1077-1081, on an accepted beat: two enqueue()   *)
TimerEnqueue ==
  /\ Len(produced) < MaxRacePairs
  /\ timeInitiated
  /\ \E b \in BpmValues :
       /\ bpmQueue' = bpmQueue \o <<b, clock>>
       /\ produced' = Append(produced, <<b, clock>>)
  /\ items' = items + 2
  /\ clock' = clock + 1
  /\ UNCHANGED <<regItems, popped, ecgQVars, ecgVars, stepVars, storeVars,
                 bleConnected, timeInitiated, sentSinceCheckin, lastTimeSent,
                 bpmChar, batchChar, checkinChar, linkUp, checkinWritten,
                 disconnectRequested, histVars, pc>>

(* loop(), line 414: bpmQueue.count() >= 2 *)
LoopCount ==
  /\ pc = "place"
  /\ items >= 2
  /\ pc' = "dequeue"
  /\ popped' = <<>>
  /\ UNCHANGED <<items, regItems, produced, ecgQVars, ecgVars, stepVars,
                 storeVars, protoVars, envVars, histVars>>

(* loop(), lines 417 and 418: dequeue() takes the item at the head and      *)
(* reads the count                                                          *)
LoopDequeueRead ==
  /\ pc = "dequeue"
  /\ bpmQueue # <<>>
  /\ popped' = Append(popped, Head(bpmQueue))
  /\ bpmQueue' = Tail(bpmQueue)
  /\ regItems' = items
  /\ pc' = "dequeueWrite"
  /\ UNCHANGED <<items, produced, ecgQVars, ecgVars, stepVars, storeVars,
                 bleConnected, timeInitiated, sentSinceCheckin, lastTimeSent,
                 bpmChar, batchChar, checkinChar, envVars, histVars>>

(* loop(), lines 417 and 418: dequeue() writes the count back, one less *)
LoopDequeueWrite ==
  /\ pc = "dequeueWrite"
  /\ items' = regItems - 1
  /\ pc' = IF Len(popped) = 2 THEN "store" ELSE "dequeue"
  /\ UNCHANGED <<regItems, popped, produced, ecgQVars, ecgVars, stepVars,
                 storeVars, protoVars, envVars, histVars>>

(* loop(), lines 420-422: the pair goes to the store *)
LoopStorePair ==
  /\ pc = "store"
  /\ LET heartRate == popped[1]
         timeStamp == popped[2]
         rec == <<heartRate, timeStamp>>
         s == placeInMemory([Store EXCEPT !.toMemBuff = rec])
     IN /\ SetStore(s)
        /\ NotePlace(rec, s.readFileIndex # readFileIndex)
  /\ op' = "placeInMemory"
  /\ pc' = "place"
  /\ UNCHANGED <<raceVars, ecgQVars, ecgVars, stepVars, protoVars, envVars,
                 lost>>

NextRace ==
  \/ TimerEnqueue
  \/ LoopCount \/ LoopDequeueRead \/ LoopDequeueWrite \/ LoopStorePair

SpecRace == InitRace /\ [][NextRace]_vars

-----------------------------------------------------------------------------
(* The main loop with a wearer who walks, checked under SpecWalk: SpecLoop  *)
(* with steps counted by the sensor and with time that passes between the   *)
(* beats, so that excursions are started, closed, stored and sent.          *)

(* Beats, steps and jumps of the clock in a behaviour of SpecWalk *)
MaxWalkBeats == 4
MaxWalkSteps == 1
MaxWalkTicks == 1

(* The beats queued so far *)
BeatsQueued == Len(appended) + (Len(bpmQueue) \div 2)

(* updateHeartRate() on a tick where detect() found a beat, lines 1077-1081 *)
WalkBeat ==
  /\ BeatsQueued < MaxWalkBeats
  /\ Len(bpmQueue) < 2 * MaxQueue
  /\ IF timeInitiated
     THEN /\ \E b \in BpmValues : bpmQueue' = bpmQueue \o <<b, clock>>
          /\ clock' = clock + 1
     ELSE UNCHANGED <<bpmQueue, clock>>
  /\ UNCHANGED <<raceVars, ecgQVars, ecgVars, stepVars, storeVars, bleConnected, timeInitiated, sentSinceCheckin,
                 lastTimeSent, bpmChar, batchChar, checkinChar,
                 linkUp, checkinWritten, disconnectRequested, histVars, pc>>

(* The wearer takes a step *)
WalkStep ==
  /\ stepsTaken < MaxWalkSteps
  /\ StepTaken

(* In an excursion, the wearer stands still for longer than an excursion    *)
(* lasts without a step                                                     *)
WalkTick ==
  /\ ticks < MaxWalkTicks
  /\ detectingSteps
  /\ clock' = clock + MAX_SECS_BETWEEN_STEPS + 1
  /\ ticks' = ticks + 1
  /\ UNCHANGED <<raceVars, ecgQVars, ecgVars, storeVars, protoVars, linkUp, checkinWritten,
                 disconnectRequested, histVars, pc,
                 trackVars, stepStoreVars, stepsTaken, stepRecords, stepOp>>

NextWalk ==
  \/ WalkBeat \/ WalkStep \/ WalkTick
  \/ PeerConnect \/ PeerDisconnect \/ PeerWrite
  \/ LoopPlace \/ LoopTryToConnect \/ LoopObtainInitTime
  \/ LoopCheckinSend \/ LoopCheckinTimeout \/ LoopCheckinCommit
  \/ LoopCheckinRevert
  \/ LoopLiveSend \/ LoopBatchSend \/ LoopHandleDisconnect

SpecWalk == Init /\ [][NextWalk]_vars

-----------------------------------------------------------------------------
(* Claims about the store, checked under Spec                               *)

(* The entries of q that are in S, in the order of q *)
RECURSIVE Restrict(_, _)
Restrict(q, S) ==
  IF q = <<>> THEN <<>>
  ELSE (IF Head(q) \in S THEN <<Head(q)>> ELSE <<>>) \o Restrict(Tail(q), S)

(* C1: the slots from the ack pointer forward to the write pointer hold,    *)
(* unchanged and in order, the records most recently appended (none erased, *)
(* none overwritten), and when ack or read is in the file being written it  *)
(* is not ahead of the write offset: the write pointer never entered a file *)
(* while ack or read stayed behind in it.                                   *)
C1_AckToWriteIntact ==
  LET w == Walk(flashFiles, AckPos, WritePos)
  IN /\ Len(w) <= Len(appended)
     /\ w = Last(appended, Len(w))
     /\ (ackFileIndex = writeFileIndex => nextToAck <= nextToPlace)
     /\ (readFileIndex = writeFileIndex => nextToRetrieve <= nextToPlace)

C1_Witness ==
  /\ op = "place"
  /\ Len(appended) > STORAGE_LENGTH
  /\ ackFileIndex # 0 /\ nextToAck # 0
  /\ writeFileIndex = 0
  /\ Len(Walk(flashFiles, AckPos, WritePos)) >= DATA_PER_FILE

(* C2: measured forward from ack, read is not beyond write, and write is    *)
(* less than the whole ring away.                                           *)
C2_PointerOrder ==
  /\ StepsFrom(AckPos, ReadPos) <= StepsFrom(AckPos, WritePos)
  /\ StepsFrom(AckPos, WritePos) < STORAGE_LENGTH
  /\ StepsFrom(AckPos, WritePos) <= Len(appended)

C2_Witness ==
  /\ Len(appended) > STORAGE_LENGTH
  /\ everReverted
  /\ AckPos > WritePos
  /\ ReadPos < AckPos
  /\ ReadPos # WritePos

(* C3 as stated: as long as no more than STORAGE_LENGTH records were        *)
(* appended (and read was never reverted), the takes returned the appended  *)
(* records in append order, all of them once read has reached write.        *)
C3_FifoUpToCapacity ==
  (~everReverted /\ Len(appended) <= STORAGE_LENGTH)
    => /\ IsPrefix(fifoOut, appended)
       /\ (ReadPos = WritePos => fifoOut = appended)

(* C3 amended: the same for fewer than STORAGE_LENGTH records: the append   *)
(* that fills the last file erases the first one.                           *)
C3_FifoBelowCapacity ==
  (~everReverted /\ Len(appended) < STORAGE_LENGTH)
    => /\ IsPrefix(fifoOut, appended)
       /\ (ReadPos = WritePos => fifoOut = appended)

C3_Witness ==
  /\ op = "take"
  /\ ~everReverted
  /\ Len(appended) = STORAGE_LENGTH - 1
  /\ fifoOut = appended

(* C4 as stated: after a revert, each take returns the next of the records  *)
(* that lay between ack and the read position at the revert, and those are  *)
(* in the order in which they were first returned.                          *)
C4_ReplayAfterRevert ==
  [][ /\ (Take /\ pending # <<>>) => (ret' /\ fromMemBuff' = Head(pending))
      /\ Revert => pending' = Restrict(sentWindow, Range(pending')) ]_vars

(* C4 amended: the same, unless an append has moved the read pointer out of *)
(* an erased file since the revert.                                         *)
C4_ReplayUnlessEvicted ==
  [][ /\ (Take /\ pending # <<>> /\ ~evicted)
          => (ret' /\ fromMemBuff' = Head(pending))
      /\ Revert => pending' = Restrict(sentWindow, Range(pending')) ]_vars

C4_Witness ==
  /\ op = "take"
  /\ everReverted /\ ~evicted
  /\ lastTakes # <<>>
  /\ Len(pending) >= 1
  /\ readFileIndex # ackFileIndex

C10_TakeContract ==
  [][ Take =>
        /\ (~ret') <=> (ReadPos = WritePos)
        /\ <<writeFileIndex, nextToPlace, ackFileIndex, nextToAck>>' =
             <<writeFileIndex, nextToPlace, ackFileIndex, nextToAck>>
        /\ (~ret') => <<readFileIndex, nextToRetrieve>>' =
                        <<readFileIndex, nextToRetrieve>>
        /\ ret' =>
             /\ fromMemBuff' = SlotAt(flashFiles, ReadPos)
             /\ ReadPos' = (ReadPos + 1) % STORAGE_LENGTH
             /\ IF nextToRetrieve + DSIZE >= FSIZE
                THEN /\ readFileIndex' = (readFileIndex + 1) % NUM_BUFFS
                     /\ nextToRetrieve' = 0
                ELSE /\ readFileIndex' = readFileIndex
                     /\ nextToRetrieve' = nextToRetrieve + DSIZE
             /\ StepsFrom(ReadPos', WritePos') + 1 = StepsFrom(ReadPos, WritePos)
    ]_vars

C10_Witness ==
  /\ op = "take" /\ ret
  /\ Len(appended) > STORAGE_LENGTH
  /\ readFileIndex = 0 /\ nextToRetrieve = 0

C10_WitnessEmpty ==
  /\ op = "take" /\ ~ret
  /\ Len(appended) > STORAGE_LENGTH

(* Claims about the overflow scenario, checked under SpecOverflow           *)

(* The records still on the flash chip *)
Stored == {flashFiles[f][i] : f \in 0..(NUM_BUFFS - 1), i \in 1..DATA_PER_FILE}

(* The first n records appended *)
Earliest(n) == {appended[i] : i \in 1..n}

(* C11 as stated: after STORAGE_LENGTH + Excess appends the records lost    *)
(* are among the earliest Excess ones: all of these when ack never moved,   *)
(* and none when ack had gone past these before the overflow.               *)
C11_OverflowLosesExcess ==
  (Len(appended) = STORAGE_LENGTH + Excess)
    => /\ lost \subseteq Earliest(Excess)
       /\ (taken = {}) => (lost = Earliest(Excess))
       /\ (Earliest(Excess) \cap lost = {}) => (lost = {})

(* C11 amended: after one full ring plus fewer records than a file holds,   *)
(* the records gone from the chip are those of the first file (the earliest *)
(* DATA_PER_FILE ones, erased when the ring became full), and the ones lost *)
(* are those of them that ack had not gone past: all of them when ack never *)
(* moved, none when ack had gone past the whole first file.                 *)
C11_OverflowLosesFile ==
  (Len(appended) \in STORAGE_LENGTH..(STORAGE_LENGTH + Excess))
    => /\ Range(appended) \ Stored = Earliest(DATA_PER_FILE)
       /\ lost \subseteq Earliest(DATA_PER_FILE)
       /\ (taken = {}) => (lost = Earliest(DATA_PER_FILE))
       /\ Earliest(DATA_PER_FILE) \ lost \subseteq taken
       /\ \A i, j \in 1..DATA_PER_FILE :
            (i < j /\ appended[i] \in lost) => appended[j] \in lost

(* Ack had gone past the earliest Excess records, and yet records are lost *)
C11_Witness ==
  /\ op = "place"
  /\ Len(appended) = STORAGE_LENGTH + Excess
  /\ Earliest(Excess) \cap lost = {}
  /\ lost # {}

(* Ack had gone past the first file: nothing is lost *)
C11_WitnessNoLoss ==
  /\ op = "place"
  /\ Len(appended) = STORAGE_LENGTH + Excess
  /\ lost = {}

-----------------------------------------------------------------------------
(* Claims about the delivery protocol, checked under SpecLoop               *)

(* The records that lie before the ack pointer *)
BeforeAck == Range(appended) \ Range(Walk(flashFiles, AckPos, WritePos))

(* The records that were never taken and that the read pointer (the ack     *)
(* pointer) has gone past                                                   *)
ReadSkipped == (Range(appended) \ taken)
                 \ Range(Walk(flashFiles, ReadPos, WritePos))
AckSkipped == (Range(appended) \ taken)
                 \ Range(Walk(flashFiles, AckPos, WritePos))

(* C5: no take returns a record that lies before the ack pointer, and only  *)
(* a step that appends (placeInMemory, with its file switch) can take the   *)
(* read or the ack pointer past a record that was never taken.              *)
C5_NoResendBeforeAck ==
  [][ /\ \A r \in Range(lastTakes') : r \notin BeforeAck
      /\ (/\ appended' = appended
          /\ <<readFileIndex, nextToRetrieve, ackFileIndex, nextToAck>>' #
               <<readFileIndex, nextToRetrieve, ackFileIndex, nextToAck>>) =>
           /\ ReadSkipped' \subseteq ReadSkipped
           /\ AckSkipped' \subseteq AckSkipped ]_vars

C5_Witness ==
  /\ op \in {"liveSend", "batchSend"}
  /\ lastTakes # <<>>
  /\ everReverted
  /\ (BeforeAck \cap taken) # {}
  /\ ReadSkipped # {}
  /\ Range(lastTakes) \subseteq Range(sentWindow)

(* C6: when the wait of checkin() ends with nothing written, disconnect is  *)
(* called and read is set to ack, ack and write staying as they were; and   *)
(* the rest of the pass leaves the connected state without a take.          *)
C6_TimeoutLeavesConnected ==
  [][ /\ (pc = "checkinWait" /\ ~checkinWritten /\ pc' = "send") =>
           /\ disconnectRequested'
           /\ readFileIndex' = ackFileIndex' /\ nextToRetrieve' = nextToAck'
           /\ <<ackFileIndex, nextToAck, writeFileIndex, nextToPlace>>' =
                <<ackFileIndex, nextToAck, writeFileIndex, nextToPlace>>
      /\ (op = "checkinTimeout" /\ pc = "send" /\ pc' # "send") =>
           /\ ~bleConnected'
           /\ lastTakes' = <<>>
           /\ <<readFileIndex, nextToRetrieve>>' =
                <<readFileIndex, nextToRetrieve>> ]_vars

(* C7: a written 1 moves ack to read and leaves read alone; a written 0     *)
(* moves read to ack and leaves ack alone; neither changes the write        *)
(* pointer, bleConnected or the link.                                       *)
C7_CheckinAnswer ==
  [][ (pc = "checkinWait" /\ pc' = "send" /\ checkinWritten) =>
        /\ (checkinChar[4] = 1) =>
             /\ ackFileIndex' = readFileIndex /\ nextToAck' = nextToRetrieve
             /\ <<readFileIndex, nextToRetrieve>>' =
                  <<readFileIndex, nextToRetrieve>>
        /\ (checkinChar[4] = 0) =>
             /\ readFileIndex' = ackFileIndex /\ nextToRetrieve' = nextToAck
             /\ <<ackFileIndex, nextToAck>>' = <<ackFileIndex, nextToAck>>
        /\ (checkinChar[4] \in {0, 1}) =>
             <<writeFileIndex, nextToPlace, bleConnected, linkUp>>' =
               <<writeFileIndex, nextToPlace, bleConnected, linkUp>>
    ]_vars

C7_Witness ==
  /\ op = "checkinCommit"
  /\ everReverted
  /\ AckPos = ReadPos
  /\ ReadPos # WritePos
  /\ sentWindow = <<>>

C7_WitnessRevert ==
  /\ op = "checkinRevert"
  /\ checkinChar[4] = 0
  /\ Len(pending) >= 2

(* C8: a pass that finds the link up runs exactly one of liveSend and       *)
(* batchSend: with fewer than 4 records between read and write, liveSend    *)
(* takes at most one record and sends it on bpmChar only; otherwise         *)
(* batchSend takes the next 4 records and sends them on batchChar only.     *)
C8_OneModePerPass ==
  [][ (AtSend /\ linkUp /\ pc' = "place") =>
        \/ /\ StepsFrom(ReadPos, WritePos) < 4
           /\ op' = "liveSend"
           /\ Len(lastTakes') <= 1
           /\ lastTakes' = Walk(flashFiles, ReadPos, ReadPos')
           /\ batchChar' = batchChar
           /\ bpmChar' = IF lastTakes' = <<>> THEN bpmChar
                         ELSE Package(lastTakes'[1])
        \/ /\ StepsFrom(ReadPos, WritePos) >= 4
           /\ op' = "batchSend"
           /\ Len(lastTakes') = 4
           /\ lastTakes' = Walk(flashFiles, ReadPos, ReadPos')
           /\ ReadPos' = (ReadPos + 4) % STORAGE_LENGTH
           /\ bpmChar' = bpmChar
           /\ batchChar' = [i \in 1..4 |-> Package(lastTakes'[i])]
    ]_vars

C8_Witness ==
  /\ op = "batchSend"
  /\ Len(lastTakes) = 4
  /\ bpmChar # <<>>
  /\ readFileIndex < ackFileIndex

C8_WitnessLive ==
  /\ op = "liveSend"
  /\ Len(lastTakes) = 1
  /\ batchChar # <<>>

-----------------------------------------------------------------------------
(* Claims about the step tracker, checked under SpecSteps                   *)

(* The step store's write position, counted in records *)
WritePosStep == (writeFileIndexStep * DATA_PER_FILE_STEP)
                  + (nextToPlaceStep \div DSIZE_STEP)

(* The fields of an excursion record *)
RecStart(rec) == rec[1] + (256 * rec[2]) + (65536 * rec[3]) + (16777216 * rec[4])
RecOffset(rec) == Word2(<<rec[5], rec[6]>>)
RecCount(rec) == Word2(<<rec[7], rec[8]>>)
RecActive(rec) == Word2(<<rec[9], rec[10]>>)

(* A call of checkForSteps that finds the excursion over: no step since the *)
(* last call and more than MAX_SECS_BETWEEN_STEPS since the last step       *)
GapSeen ==
  /\ detectingSteps
  /\ imuStepCount = stepCount
  /\ clock - stepEndTime > MAX_SECS_BETWEEN_STEPS

(* What closing does apart from the record: the write pointer of the step   *)
(* store moves on by one record, the counts are reset, the tracker is idle. *)
ClosedOnce ==
  /\ Len(stepRecords') = Len(stepRecords) + 1
  /\ WritePosStep' = (WritePosStep + 1) % (DATA_PER_FILE_STEP * NUM_BUFFS_STEP)
  /\ flashFilesStep'[writeFileIndexStep][SlotOfStep(nextToPlaceStep)] =
       stepRecords'[Len(stepRecords')]
  /\ imuStepCount' = 0 /\ stepCount' = 0
  /\ ~detectingSteps'

(* C16 as stated: the call that sees the gap appends one record             *)
(* {stepStartTime, stepEndTime - stepStartTime, stepCount, activeTime},     *)
(* resets both step counts and leaves the excursion; no other call appends. *)
C16_CloseAppendsRecord ==
  [][ Poll =>
        IF GapSeen
        THEN /\ ClosedOnce
             /\ LET rec == stepRecords'[Len(stepRecords')]
                IN /\ RecStart(rec) = stepStartTime
                   /\ RecOffset(rec) = stepEndTime - stepStartTime
                   /\ RecCount(rec) = stepCount
                   /\ RecActive(rec) = activeTime'
        ELSE /\ stepRecords' = stepRecords
             /\ <<writeFileIndexStep, nextToPlaceStep, flashFilesStep>>' =
                  <<writeFileIndexStep, nextToPlaceStep, flashFilesStep>>
    ]_vars

(* C16 amended: the same, the record holding the two low bytes of the       *)
(* offset, of the step count and of the active seconds.                     *)
C16_CloseAppendsTruncated ==
  [][ Poll =>
        IF GapSeen
        THEN /\ ClosedOnce
             /\ LET rec == stepRecords'[Len(stepRecords')]
                IN /\ RecStart(rec) = stepStartTime
                   /\ RecOffset(rec) = (stepEndTime - stepStartTime) % 65536
                   /\ RecCount(rec) = stepCount % 65536
                   /\ RecActive(rec) = activeTime' % 65536
        ELSE /\ stepRecords' = stepRecords
             /\ <<writeFileIndexStep, nextToPlaceStep, flashFilesStep>>' =
                  <<writeFileIndexStep, nextToPlaceStep, flashFilesStep>>
    ]_vars

C16_Witness ==
  /\ stepOp = "close"
  /\ Len(stepRecords) >= 2
  /\ LET rec == stepRecords[Len(stepRecords)]
     IN /\ RecCount(rec) >= 2
        /\ RecOffset(rec) = 20
        /\ RecActive(rec) = 20

C16_WitnessLong ==
  /\ stepOp = "close"
  /\ stepEndTime - stepStartTime >= 65536


(* The time of the last step the tracker has seen in this excursion *)
LastStepSeen == IF stepEndTime < stepStartTime THEN stepStartTime
                ELSE stepEndTime

(* C17 as stated: in an excursion, a call that reads a step count of zero   *)
(* or lower than stepCount is handled as a call that reads no change:       *)
(* stepCount and the time of the last step stay (stepCount goes to zero     *)
(* only by closing the excursion), and it starts no excursion.              *)
C17_LowerReadingIsNoChange ==
  [][ (Poll /\ detectingSteps /\ (imuStepCount = 0 \/ imuStepCount < stepCount))
        => /\ stepEndTime' = stepEndTime
           /\ stepStartTime' = stepStartTime
           /\ stepCount' = IF clock - stepEndTime > MAX_SECS_BETWEEN_STEPS
                           THEN 0 ELSE stepCount
           /\ stepOp' \in {"close", "inactive", "idle"}
    ]_vars

(* C18 as stated: a call of checkForSteps marks the wearer inactive exactly *)
(* when they are active and the last step seen is more than                 *)
(* ACTIVE_THRESHOLD seconds ago, and it then adds the time since they were  *)
(* last marked active to the active seconds.                                *)
C18_InactiveAfterThreshold ==
  [][ Poll =>
        /\ (active /\ ~active')
             <=> /\ active /\ detectingSteps /\ imuStepCount = stepCount
                 /\ clock - LastStepSeen > ACTIVE_THRESHOLD
        /\ (active /\ ~active') => activeTime' = activeTime + (clock - lastActive)
    ]_vars

(* The fourth step of the walk has been taken and seen *)
FourthSeen ==
  /\ stepsTaken = Len(ScenarioTimes)
  /\ stepStartTime = T0 + 90 \/ stepEndTime = T0 + 90

(* C19 as stated: steps seen at 0, 10, 20 and 90: the first record appended *)
(* is that of an excursion from 0 with offset 20 and three steps, and it    *)
(* is there when the fourth step is seen, which starts an excursion at 90.  *)
C19_GapSplitsExcursions ==
  /\ Len(stepRecords) >= 1
       => /\ RecStart(stepRecords[1]) = T0
          /\ RecOffset(stepRecords[1]) = 20
          /\ RecCount(stepRecords[1]) = 3
  /\ FourthSeen
       => /\ Len(stepRecords) >= 1
          /\ detectingSteps /\ stepStartTime = T0 + 90

-----------------------------------------------------------------------------
(* Claims about the main loop and the wearer, checked under SpecWalk        *)

(* C13: while the time is not set (timeInitiated false) no beat is queued,  *)
(* nothing has been appended to either store, checkForSteps has not been    *)
(* called; and the device is only in the connected state with the time set. *)
C13_NothingBeforeTime ==
  /\ ~timeInitiated
       => /\ bpmQueue = <<>>
          /\ appended = <<>> /\ WritePos = 0
          /\ stepOp = "init" /\ ~detectingSteps
          /\ stepRecords = <<>> /\ WritePosStep = 0
  /\ bleConnected => timeInitiated

(* A step taken and a central connected while the time is not set *)
C13_Witness ==
  /\ ~timeInitiated
  /\ imuStepCount > 0
  /\ pc = "obtainInitTime"

(* The step and the beats that follow the setting of the time are kept *)
C13_WitnessAfter ==
  /\ timeInitiated
  /\ stepRecords # <<>>
  /\ appended # <<>>

(* A step of the wearer, the heart or the peer: not one of loop() *)
Outside == op' = op /\ pc' = pc

(* C14: while bleConnected is false, loop() takes nothing from either       *)
(* store and sends nothing: it only appends, polls the steps and tries to   *)
(* connect, and a read pointer moves only when the write pointer enters its *)
(* file.  The pass that notices a disconnect sets bleConnected false and    *)
(* leaves the pointers of both stores alone.                                *)
C14_DisconnectedTakesNothing ==
  [][ /\ (~bleConnected /\ ~Outside)
        => /\ op' \in {"placeInMemory", "nothingToPlace", "tryToConnect",
                       "obtainInitTime"}
           /\ <<taken, fifoOut, fromMemBuff, ret>>' =
                <<taken, fifoOut, fromMemBuff, ret>>
           /\ <<fromMemBuffStep, retStep, stepChar>>' =
                <<fromMemBuffStep, retStep, stepChar>>
           /\ <<bpmChar, batchChar, checkinChar, sentSinceCheckin,
                lastTimeSent>>' =
                <<bpmChar, batchChar, checkinChar, sentSinceCheckin,
                  lastTimeSent>>
           /\ (<<readFileIndex, nextToRetrieve>>' # <<readFileIndex, nextToRetrieve>>)
                => /\ writeFileIndex' = readFileIndex
                   /\ writeFileIndex' # writeFileIndex
                   /\ ReadPos' = ((readFileIndex + 1) % NUM_BUFFS) * DATA_PER_FILE
           /\ (<<readFileIndexStep, nextToRetrieveStep>>' #
                 <<readFileIndexStep, nextToRetrieveStep>>)
                => /\ writeFileIndexStep' = readFileIndexStep
                   /\ writeFileIndexStep' # writeFileIndexStep
                   /\ nextToRetrieveStep' = 0
                   /\ readFileIndexStep' =
                        (readFileIndexStep + 1) % NUM_BUFFS_STEP
      /\ (bleConnected /\ op' = "handleDisconnect" /\ ~Outside)
        => /\ ~bleConnected'
           /\ <<writeFileIndex, readFileIndex, ackFileIndex, nextToPlace,
                nextToRetrieve, nextToAck>>' =
                <<writeFileIndex, readFileIndex, ackFileIndex, nextToPlace,
                  nextToRetrieve, nextToAck>>
           /\ <<writeFileIndexStep, readFileIndexStep, nextToPlaceStep,
                nextToRetrieveStep>>' =
                <<writeFileIndexStep, readFileIndexStep, nextToPlaceStep,
                  nextToRetrieveStep>>
    ]_vars

(* The state after a pass that appended while disconnected, with records    *)
(* waiting in both stores                                                   *)
C14_Witness ==
  /\ ~bleConnected /\ timeInitiated
  /\ op = "placeInMemory" /\ pc = "proto"
  /\ ReadPos # WritePos
  /\ <<readFileIndexStep, nextToRetrieveStep>> #
       <<writeFileIndexStep, nextToPlaceStep>>

(* The state after a pass that noticed a disconnect, records waiting *)
C14_WitnessNoticed ==
  /\ op = "handleDisconnect" /\ ~bleConnected
  /\ ReadPos # WritePos
  /\ stepRecords # <<>>

-----------------------------------------------------------------------------
(* Claims about the waits of the main loop, checked under SpecLoopFair      *)

(* C15 as stated: the wait for the peer's time and the wait for the answer  *)
(* to a checkin both end, whatever the peer does, and loop() comes back to  *)
(* line 414 again and again.                                                *)
C15_WaitsEnd ==
  /\ (pc = "obtainInitTime") ~> (pc = "place")
  /\ (pc = "checkinWait") ~> (pc = "send")
  /\ []<>(pc = "place")

-----------------------------------------------------------------------------
(* Claims about the detector, checked under SpecDetect                      *)

(* C20: on every sample detect() returns true exactly when the filtered     *)
(* value is above the threshold and no sample among the 99 before it was    *)
(* accepted; so two accepted samples are at least 100 samples apart.        *)
C20_AcceptIffAboveAndClear ==
  [][ (samples' = samples + 1)
        => /\ QRS_detected'
                <=> /\ next_eval_pt' > thresholdAtTest'
                    /\ \A i \in 1..Len(accepts) : samples' - accepts[i] >= 100
           /\ accepts' = IF QRS_detected' THEN Append(accepts, samples')
                         ELSE accepts
           /\ \A i \in 1..(Len(accepts') - 1) :
                accepts'[i + 1] - accepts'[i] >= 100
    ]_vars

(* A sample accepted exactly 100 samples after the one before *)
C20_Witness ==
  /\ QRS_detected
  /\ Len(accepts) >= 2
  /\ accepts[Len(accepts)] - accepts[Len(accepts) - 1] = 100

(* A sample above the threshold that is not accepted, in the hold-off *)
C20_WitnessHeld ==
  /\ ~QRS_detected
  /\ next_eval_pt > thresholdAtTest
  /\ accepts # <<>>
  /\ samples - accepts[Len(accepts)] < 100

(* C21 as stated: the first sample accepted after startup has no interval   *)
(* before it: it puts no BPM value into the averaging buffer and queues no  *)
(* heart-rate event.                                                        *)
C21_FirstBeatNoInterval ==
  [][ (accepts = <<>> /\ accepts' # <<>>)
        => /\ bpm_buff' = bpm_buff
           /\ bpm' = bpm
           /\ bpmQueue' = bpmQueue
    ]_vars

(* C22: a tick with a lead off changes nothing: no sample is taken, nothing *)
(* is queued, and the detector, the BPM buffer and the beat times stay.     *)
C22_LeadsOffChangesNothing ==
  [][ (micros' # micros /\ samples' = samples)
        => /\ UNCHANGED <<detVars, bpmVars, detHistVars>>
           /\ UNCHANGED <<bpmQueue, ecgQueue, ecgQCount, safeToFill>>
    ]_vars

(* A tick with a lead off right after a tick that accepted a beat, while    *)
(* connected                                                                *)
C22_Witness ==
  /\ (micros \div PERIOD) - samples = 1
  /\ accepts # <<>>
  /\ found_time_micros = micros - PERIOD
  /\ bpmQueue # <<>>
  /\ ecgQueue # <<>>

(* C23: on each of the first N = 30 samples the filtered value is zero and  *)
(* detect() returns false, whatever the signal, so no sample up to the      *)
(* N-th is accepted and no heart-rate event is queued by then.              *)
C23_NoBeatDuringFill ==
  /\ \A i \in 1..Len(accepts) : accepts[i] > N
  /\ (samples >= 1 /\ samples <= N)
       => /\ next_eval_pt = 0
          /\ ~QRS_detected
          /\ bpmQueue = <<>>

(* The N-th sample of a signal that has moved the filters *)
C23_Witness ==
  /\ samples = N
  /\ lp_sum > 0
  /\ timeInitiated

(* The number of samples after sample a up to sample b that were accepted *)
AcceptedIn(a, b) ==
  Cardinality({j \in 1..Len(accepts) : a < accepts[j] /\ accepts[j] <= b})

(* The sample of the last threshold update, 0 before the first *)
LastUpdate == IF updates = <<>> THEN 0 ELSE updates[Len(updates)]

C25_WitnessQuiet ==
  /\ Len(updates) >= 2
  /\ accepts = <<>>
  /\ updates[2] - updates[1] = win_size + 1

(* The sum of the BPM buffer, recomputed *)
SumBuff(b) == b[0] + b[1] + b[2] + b[3] + b[4]

(* C26: on every accepted beat with the time obtained, the value enqueued   *)
(* is the integer mean of the five entries of the BPM buffer as it stands   *)
(* with the new entry, unwritten entries being 0; and the running sum kept  *)
(* in bpm is at all times the sum of the buffer less the entry that the     *)
(* next beat replaces, so that at each emission it is the recomputed sum.   *)
C26_MeanOfFive ==
  [][ (accepts' # accepts)
        => /\ bpm + bpm_buff'[bpm_buff_RD_idx] = SumBuff(bpm_buff')
           /\ bpm' = SumBuff(bpm_buff') - bpm_buff'[bpm_buff_RD_idx']
           /\ bpm_buff_WR_idx' = bpm_buff_RD_idx'
           /\ timeInitiated
                => bpmQueue' = bpmQueue \o
                     <<SumBuff(bpm_buff') \div BPM_BUFFER_SIZE, clock>> ]_vars

(* The sixth beat has replaced the oldest entry of a full buffer *)
C26_Witness ==
  /\ Len(accepts) >= BPM_BUFFER_SIZE + 1
  /\ accepts[Len(accepts)] = samples
  /\ timeInitiated
  /\ \A i \in 0..(BPM_BUFFER_SIZE - 1) : bpm_buff[i] > 0
  /\ bpmQueue[Len(bpmQueue) - 1] = SumBuff(bpm_buff) \div BPM_BUFFER_SIZE

(* C24: when an append rolls the write pointer into the next file, that     *)
(* file is erased and the write pointer is at its offset 0; the ack pointer *)
(* is moved exactly if it was in that file, to offset 0 of the file after   *)
(* it, and so is the read pointer; a pointer in another file stays.         *)
C24_RolloverEvicts ==
  [][ (writeFileIndex' # writeFileIndex)
        => LET w == (writeFileIndex + 1) % NUM_BUFFS
               after == (w + 1) % NUM_BUFFS
           IN /\ writeFileIndex' = w
              /\ nextToPlace' = 0
              /\ flashFiles'[w] = flashErase(flashFiles[w])
              /\ \A f \in (0..(NUM_BUFFS - 1)) \ {w} :
                   flashFiles'[f] = flashFiles[f] \/ f = writeFileIndex
              /\ IF ackFileIndex = w
                 THEN ackFileIndex' = after /\ nextToAck' = 0
                 ELSE UNCHANGED <<ackFileIndex, nextToAck>>
              /\ IF readFileIndex = w
                 THEN readFileIndex' = after /\ nextToRetrieve' = 0
                 ELSE UNCHANGED <<readFileIndex, nextToRetrieve>> ]_vars

(* The ring has just been filled: the append rolled into file 0, the ack    *)
(* pointer was there and is evicted, the read pointer was further on and    *)
(* stays                                                                    *)
C24_Witness ==
  /\ op = "place"
  /\ Len(appended) = STORAGE_LENGTH
  /\ writeFileIndex = 0 /\ nextToPlace = 0
  /\ ackFileIndex = 1 /\ nextToAck = 0
  /\ readFileIndex = 2 /\ nextToRetrieve = DSIZE

(* The ring has just been filled and both pointers are evicted from file 0 *)
C24_WitnessBoth ==
  /\ op = "place"
  /\ Len(appended) = STORAGE_LENGTH
  /\ evicted
  /\ writeFileIndex = 0 /\ nextToPlace = 0
  /\ ackFileIndex = 1 /\ nextToAck = 0
  /\ readFileIndex = 1 /\ nextToRetrieve = 0

(* C27: in a pass of the loop that calls batchSend, each of the four takes  *)
(* succeeds: the batch sent is the packages of four records that were       *)
(* appended one after the other, and no part of it is left unfilled.        *)
C27_BatchIsFourRecords ==
  [][ (AtSend /\ op' = "batchSend")
        => /\ Len(lastTakes') = NUM_PCKGS
           /\ \E k \in 1..Len(appended) :
                /\ k + NUM_PCKGS - 1 <= Len(appended)
                /\ lastTakes' = SubSeq(appended, k, k + NUM_PCKGS - 1)
           /\ batchChar' = [i \in 1..NUM_PCKGS |-> Package(lastTakes'[i])] ]_vars

(* A batch has been sent after the ring was filled and the pointers evicted *)
C27_Witness ==
  /\ op = "batchSend"
  /\ Len(lastTakes) = NUM_PCKGS
  /\ Len(appended) >= STORAGE_LENGTH
  /\ lastTakes[1] # appended[1]
  /\ evicted

(* checkin() has just returned, by one of its three ways out *)
CheckinDone == op \in {"checkinTimeout", "checkinCommit", "checkinRevert"}

(* C28: when checkin() returns, whether the peer wrote nothing, a 1 or      *)
(* something else, the read pointer equals the ack pointer in file index    *)
(* and in offset, and sentSinceCheckin is 0.                                *)
C28_CheckinAligns ==
  CheckinDone
    => /\ readFileIndex = ackFileIndex
       /\ nextToRetrieve = nextToAck
       /\ sentSinceCheckin = 0
       /\ pc = "send"

(* The peer wrote a 0 after records of two files were sent: read came back  *)
(* from another file to ack                                                 *)
C28_Witness ==
  /\ op = "checkinRevert"
  /\ Len(pending) > DATA_PER_FILE

(* The peer confirmed: ack moved up to read *)
C28_WitnessCommit ==
  /\ op = "checkinCommit"
  /\ <<ackFileIndex, nextToAck>> # <<0, 0>>

(* The peer wrote nothing *)
C28_WitnessTimeout ==
  /\ op = "checkinTimeout"
  /\ Len(pending) > DATA_PER_FILE

C29_WitnessBatch ==
  /\ op = "batchSend"
  /\ Len(lastTakes) = NUM_PCKGS
  /\ sentSinceCheckin = timeToCheckin

(* The pairs of the values that the queue's count lets the loop see *)
RECURSIVE PairsOf(_)
PairsOf(q) ==
  IF Len(q) < 2 THEN <<>> ELSE <<<<q[1], q[2]>>>> \o PairsOf(Tail(Tail(q)))

SeenByLoop == SubSeq(bpmQueue, 1, items)

(* C30: whenever the loop is about to test the queue, the pairs it has      *)
(* stored followed by the pairs it can see in the queue are the pairs the   *)
(* interrupt has enqueued, in the order of their production: each stored    *)
(* pair is a bpm with its own timestamp, none is lost, none is duplicated.  *)
C30_WholePairsInOrder ==
  (pc = "place")
    => /\ items <= Len(bpmQueue)
       /\ items % 2 = 0
       /\ appended \o PairsOf(SeenByLoop) = produced

(* The sensor's counter has only gone up between resets: the wearer has     *)
(* taken fewer steps than the counter holds                                 *)
CounterOnlyIncreased == stepsTaken < ImuWrap

(* The record that the call which closed the excursion has appended *)
LastStepRecord == stepRecords[Len(stepRecords)]

(* C31 as stated, of the record appended: its step count is at least 1, the *)
(* last step is not before the start, its active seconds are at most its    *)
(* offset, and the tracker is not active when the excursion is closed.      *)
C31_RecordInvariants ==
  (stepOp = "close" /\ CounterOnlyIncreased)
    => /\ RecCount(LastStepRecord) >= 1
       /\ stepEndTime >= stepStartTime
       /\ RecActive(LastStepRecord) <= RecOffset(LastStepRecord)
       /\ ~active

(* C31 amended: the values the record is made from satisfy stepCount >= 1,  *)
(* stepEndTime >= stepStartTime and activeTime <= stepEndTime -             *)
(* stepStartTime, and the tracker is not active; the record holds the two   *)
(* low bytes of each, so that its active seconds are at most its offset     *)
(* when the excursion is shorter than 65536 s.                              *)
C31_ValueInvariants ==
  (stepOp = "close" /\ CounterOnlyIncreased)
    => /\ RecCount(LastStepRecord) >= 1
       /\ stepEndTime >= stepStartTime
       /\ activeTime <= stepEndTime - stepStartTime
       /\ RecOffset(LastStepRecord) = (stepEndTime - stepStartTime) % 65536
       /\ RecActive(LastStepRecord) = activeTime % 65536
       /\ (stepEndTime - stepStartTime < 65536)
            => RecActive(LastStepRecord) <= RecOffset(LastStepRecord)
       /\ ~active

(* An excursion closed after the wearer was active twice in it *)
C31_Witness ==
  /\ stepOp = "close" /\ CounterOnlyIncreased
  /\ RecCount(LastStepRecord) >= 2
  /\ activeTime > 0
  /\ activeTime < stepEndTime - stepStartTime
  /\ stepEndTime - stepStartTime < 65536

(* A long excursion closed *)
C31_WitnessLong ==
  /\ stepOp = "close" /\ CounterOnlyIncreased
  /\ stepEndTime - stepStartTime >= 65536
  /\ activeTime > 0

=============================================================================
